---- MODULE Spec2Model ----
(***************************************************************************)
(* aieng-auth: the Google OAuth 2.0 Authorization Code + PKCE client       *)
(* (GoogleOAuthClient) with the session-scoped transient state it keeps    *)
(* between login() and handleCallback().                                   *)
(*                                                                         *)
(* Strings of the program are TLA+ strings; an e-mail address is a         *)
(* sequence of tokens so that String.split can be modelled as it works.    *)
(* A JSON body is a record whose absent keys are absent fields.            *)
(***************************************************************************)
EXTENDS Integers, Sequences, FiniteSets, TLC

\* ---------------------------------------------------------------- bounds
\* Number of login() calls in one behaviour.
MaxLogins == 2
\* Number of client calls (handleCallback, refreshTokens, getUserInfo,
\* revokeToken) in one behaviour; calls may overlap (they suspend at fetch).
MaxCalls == 2

Calls == 1..MaxCalls

\* ---------------------------------------------------------------- values
\* null: URLSearchParams.get / Storage.getItem of an absent key
Null == "<null>"
\* undefined: a key the JSON body does not have
Undefined == "<undefined>"

\* JavaScript truthiness of a string-or-null value (`!x` is ~Truthy(x))
Truthy(x) == x \notin {Null, Undefined, ""}

\* crypto.randomUUID(): the k-th value it returns; UUIDs do not repeat
UUIDs == <<"uuid-1", "uuid-2", "uuid-3", "uuid-4", "uuid-5", "uuid-6">>

\* generateRandomString(128): the k-th value it returns; 128 random bytes
\* do not repeat
Verifiers == <<"verifier-1", "verifier-2", "verifier-3", "verifier-4",
               "verifier-5", "verifier-6">>

\* base64UrlEncode(sha256(verifier)): one-way and injective
Challenges == <<"challenge-1", "challenge-2", "challenge-3", "challenge-4",
                "challenge-5", "challenge-6">>
S256(verifier) ==
  IF \E k \in 1..Len(Verifiers) : Verifiers[k] = verifier
    THEN Challenges[CHOOSE k \in 1..Len(Verifiers) : Verifiers[k] = verifier]
    ELSE "challenge-other"

\* AuthErrorCode
AuthErrorCode ==
  { "INVALID_CONFIG", "AUTH_FAILED", "TOKEN_EXPIRED", "TOKEN_REFRESH_FAILED",
    "INVALID_TOKEN", "NETWORK_ERROR", "PKCE_ERROR", "USER_FETCH_ERROR",
    "STORAGE_ERROR", "INVALID_STATE", "CALLBACK_ERROR", "UNKNOWN_ERROR" }

\* An err that is no AuthErrorCode is an exception of the platform: fetch()
\* rejecting ("TypeError"), Response.json() on a body that is not JSON
\* ("SyntaxError").

\* AuthConfig.allowedDomains: absent, empty, or a list of domains
AllowedDomainsChoices == { Undefined, "empty", "example.com" }

\* the list config.allowedDomains holds (domains as token sequences)
DomainList(allowed) ==
  IF allowed \in {Undefined, "empty"} THEN {} ELSE { <<allowed>> }

VARIABLES
  config,          \* AuthConfig.allowedDomains (immutable after construction)
  sessionStorage,  \* window.sessionStorage, keys pkce_verifier and oauth_state
  pkceChallenge,   \* GoogleOAuthClient.pkceChallenge
  location,        \* window.location.href: the authorization URL navigated to
  issued,          \* login() calls that drew their random values so far
  loginResult,     \* outcome of the latest login(): "none", "ok" or an error
  calls,           \* the client calls: operation, position, outcome
  validated,       \* history: nonces that passed state validation
  consumed         \* history: nonces of callbacks that returned a token set

\* the PKCE utilities on their own
VARIABLES
  generated,       \* the PKCEChallenge objects generatePKCE() has returned
  verification     \* the latest verifyPKCE() call: its arguments and result

\* the token stores and the code that calls them
VARIABLES
  now,             \* Date.now()
  heap,            \* the token objects alive: object id -> fields
  refs,            \* references: MemoryTokenStorage.tokens of each memory
                   \* store, and the objects the caller still holds
  webStorage,      \* window.sessionStorage / window.localStorage: key -> item
  outcome,         \* what the latest store call returned or raised
  written          \* history: the latest successful write or clear per store

\* the token validator and TokenManager
VARIABLES
  probe            \* the latest validator or manager call: arguments, result

\* the AuthProvider component
VARIABLES
  props,           \* autoRefresh, config.tokenStorage given, callbacks given
  mounted,         \* "no", "yes", or "gone" after the unmount
  auth,            \* the state of the reducer
  rendered,        \* state.tokens as the latest render saw it: what the
                   \* callbacks of that render read
  onCallbackRoute, \* window.location.pathname includes 'callback'
  managed,         \* what the storage of tokenManagerRef.current holds
  timer,           \* refreshTimerRef: the timer pending, if any
  tasks,           \* the async functions of the provider in flight
  ended,           \* history: the call that returned in the latest step
  history          \* history: waiting for a refresh, logout called, calls

clientVars == << config, sessionStorage, pkceChallenge, location, issued,
                 loginResult, calls, validated, consumed >>
pkceVars == << generated, verification >>
storeVars == << now, heap, refs, webStorage, outcome, written >>
tokenVars == << probe >>
authVars == << props, mounted, auth, rendered, onCallbackRoute, managed, timer,
              tasks, ended, history >>

vars == << clientVars, pkceVars, storeVars, tokenVars, authVars >>

NoPKCE == [verifier |-> Null, challenge |-> Null, method |-> Null]
NoLocation == [code_challenge |-> Null, code_challenge_method |-> Null, state |-> Null]
EmptyStorage == [pkce_verifier |-> Null, oauth_state |-> Null]

NoResult == [kind |-> "none"]

\* ---------------------------------------------------------------- token stores: instances
\* Date.now() takes the values 0..MaxClock
MaxClock == 1

STORAGE_KEY == "cyberark_auth_tokens"
CustomKey == "custom_key"
StorageKeys == {STORAGE_KEY, CustomKey}
\* window.sessionStorage and window.localStorage
Media == {"session", "local"}

\* the store instances: two MemoryTokenStorage, three SessionStorageAdapter
\* (S1 and S2 with the default key, S3 with a custom key) and one
\* LocalStorageAdapter with the default key
MemoryStores == {"M1", "M2"}
SessionStores == {"S1", "S2", "S3"}
LocalStores == {"L1"}
WebStores == SessionStores \cup LocalStores
Stores == MemoryStores \cup WebStores

MediumOf(s) == IF s \in SessionStores THEN "session" ELSE "local"

\* the key each adapter is constructed with (none given: the default)
ConstructorKey(s) == IF s = "S3" THEN CustomKey ELSE STORAGE_KEY

\* variant: the adapter ignores the key it was constructed with
storageKeyIgnored(s) == STORAGE_KEY

\* this.storageKey: constructor(private storageKey: string = STORAGE_KEY)
storageKey(s) == ConstructorKey(s)

\* what may hold a reference to a token object: this.tokens of the memory
\* stores, the object the caller passed to setTokens ("arg") and the one
\* getTokens returned to it ("got")
Holders == << "M1", "M2", "arg", "got" >>
HolderSet == { Holders[k] : k \in 1..Len(Holders) }
\* object ids: one per holder, and two for the objects a call creates
FreshArg == Len(Holders) + 1
FreshCopy == Len(Holders) + 2
ObjIds == 1..FreshCopy
NoRef == 0

NoObject == [free |-> TRUE]
\* getItem(key) of a key that is not there is null
NoItem == [kind |-> "null"]
\* a stored string that is not JSON ('invalid json')
BadItem == [kind |-> "text"]

StoreInit ==
  /\ now = 0
  /\ heap = [id \in ObjIds |-> NoObject]
  /\ refs = [h \in HolderSet |-> NoRef]
  /\ webStorage = [m \in Media |-> [k \in StorageKeys |-> NoItem]]
  /\ outcome = [kind |-> "none"]
  /\ written = [s \in Stores |-> [kind |-> "empty"]]

\* ---------------------------------------------------------------- AuthProvider: state
\* no token set: null
NoTokens == [kind |-> "null"]

\* initialState
initialState ==
  [ isAuthenticated |-> FALSE, isLoading |-> TRUE, user |-> FALSE,
    tokens |-> NoTokens, error |-> FALSE ]

\* refreshTimerRef: no timer pending.  set: the timer of the handle is
\* pending; tokens: the token set it was scheduled for; others: timers
\* pending that the handle no longer names;
\* replaced: scheduling this timer cancelled one that was pending
NoTimer ==
  [ set |-> FALSE, closure |-> NoTokens, tokens |-> NoTokens, delay |-> 0,
    others |-> 0, replaced |-> FALSE ]

\* before the provider is mounted
AuthInit ==
  /\ props = [autoRefresh |-> TRUE, tokenStorage |-> FALSE, callbacks |-> FALSE]
  /\ mounted = "no"
  /\ auth = initialState
  /\ rendered = NoTokens
  /\ onCallbackRoute = FALSE
  /\ managed = NoTokens
  /\ timer = NoTimer
  /\ tasks = <<>>
  /\ ended = "none"
  /\ history = [ waiting |-> FALSE, logout |-> FALSE, failed |-> FALSE, calls |-> 0,
                 quiet |-> FALSE, latest |-> NoTokens ]

\* a call slot before the call is made
IdleCall ==
  [ op |-> "none", pc |-> "idle", err |-> "none", msg |-> "none",
    state |-> Null, arg |-> Null, result |-> NoResult, profile |-> NoResult,
    trace |-> <<>>,
    afterValidated |-> FALSE, afterReturned |-> FALSE, stale |-> FALSE ]

Init ==
  /\ config \in AllowedDomainsChoices
  /\ sessionStorage = EmptyStorage
  /\ pkceChallenge = NoPKCE
  /\ location = NoLocation
  /\ issued = 0
  /\ loginResult = "none"
  /\ calls = [i \in Calls |-> IdleCall]
  /\ validated = {}
  /\ consumed = {}
  /\ generated = <<>>
  /\ verification = [kind |-> "none"]
  /\ StoreInit
  /\ probe = [fn |-> "none"]
  /\ AuthInit

\* ---------------------------------------------------------------- login
\* generateState(): crypto.randomUUID()
generateState == UUIDs[issued + 1]

\* generateRandomString(128)
generateRandomString == Verifiers[issued + 1]

\* generatePKCE() when its primitives work
generatePKCE ==
  LET verifier == generateRandomString
  IN [verifier |-> verifier, challenge |-> S256(verifier), method |-> "S256"]

\* (variant) login() keeps a state nonce that is already stored
LoginStorageKeepsState(store, pkce, state) ==
  [store EXCEPT !.pkce_verifier = pkce.verifier,
                !.oauth_state = IF @ = Null THEN state ELSE @]

\* the two sessionStorage.setItem calls of login()
LoginStorage(store, pkce, state) ==
  [store EXCEPT !.pkce_verifier = pkce.verifier, !.oauth_state = state]

\* the authorization URL login() navigates to (the parameters that vary)
AuthUrl(pkce, state) ==
  [ code_challenge |-> pkce.challenge,
    code_challenge_method |-> pkce.method,
    state |-> state ]

\* login(): generatePKCE failed (random or hash primitive threw): PKCE_ERROR
LoginPKCEFails ==
  /\ issued < MaxLogins
  /\ loginResult' = "PKCE_ERROR"
  /\ UNCHANGED << pkceVars, storeVars, authVars, tokenVars, config, sessionStorage, pkceChallenge, location, issued,
                  calls, validated, consumed >>

\* login(): PKCE generated, transient state stored, browser navigates
LoginRedirects ==
  /\ issued < MaxLogins
  /\ LET pkce == generatePKCE
         state == generateState
     IN /\ pkceChallenge' = pkce
        /\ sessionStorage' = LoginStorage(sessionStorage, pkce, state)
        /\ location' = AuthUrl(pkce, state)
  /\ issued' = issued + 1
  /\ loginResult' = "ok"
  /\ UNCHANGED << pkceVars, storeVars, authVars, tokenVars, config, calls, validated, consumed >>

login ==
  \/ LoginPKCEFails
  \/ LoginRedirects

\* ---------------------------------------------------------------- HTTP
\* Response.json() of a body that is not JSON throws
NotJson == [syntaxError |-> TRUE]
IsJson(body) == "syntaxError" \notin DOMAIN body

\* data.key of a parsed body: undefined when the key is absent
Get(body, key) == IF key \in DOMAIN body THEN body[key] ELSE Undefined

\* a body that is the JSON text null parses to null; reading a property of
\* null throws a TypeError
JsonNull == [jsonNull |-> TRUE]
IsNull(body) == "jsonNull" \in DOMAIN body

\* fetch() rejects on a transport failure, else it resolves with a Response
Rejected == [kind |-> "reject"]
Http(ok, body) == [kind |-> "http", ok |-> ok, json |-> body]

\* token endpoint: JSON token sets, error bodies, bodies that are not JSON
TokenBodies ==
  { [access_token |-> "at-new", refresh_token |-> "rt-new", token_type |-> "Bearer"],
    [access_token |-> "at-new"] }
ErrorBodies ==
  { [error |-> "invalid_grant", error_description |-> "Invalid code"],
    [error |-> "invalid_grant"] }
TokenResponses ==
  {Rejected}
    \cup { Http(TRUE, b) : b \in TokenBodies \cup {NotJson, JsonNull} }
    \cup { Http(FALSE, b) : b \in ErrorBodies \cup {NotJson, JsonNull} }
\* a refresh response may also carry an empty refresh_token
RefreshBodies ==
  TokenBodies \cup { [access_token |-> "at-new", refresh_token |-> ""] }
RefreshResponses ==
  TokenResponses \cup { Http(TRUE, b) : b \in RefreshBodies }

\* userinfo endpoint: profiles with the e-mail addresses below, or without one
Emails ==
  { <<>>, <<"user">>, <<"user", "@">>,
    <<"user", "@", "example.com">>, <<"user", "@", "evil.com">>,
    <<"user", "@", "example.com", "@", "evil.com">> }
UserInfoBodies ==
  { [id |-> "user-123", email |-> e] : e \in Emails } \cup { [id |-> "user-123"] }
UserInfoResponses ==
  {Rejected, Http(FALSE, NotJson)}
    \cup { Http(TRUE, b) : b \in UserInfoBodies \cup {NotJson} }

\* revoke endpoint: any status, or no response at all
RevokeResponses == {Rejected, Http(TRUE, NotJson), Http(FALSE, NotJson)}

\* the outcome of an awaited step: an error (err # "none") or a value
Outcome(err, msg, result) == [err |-> err, msg |-> msg, result |-> result]

\* errorData.error_description || `... ${response.statusText}`, where
\* errorData is {} when the error body does not parse
ErrorMessage(resp) ==
  LET errorData == IF IsJson(resp.json) THEN resp.json ELSE [none |-> TRUE]
  IN IF Truthy(Get(errorData, "error_description"))
       THEN Get(errorData, "error_description")
       ELSE "statusText"

\* if (!response.ok) { errorData = await response.json().catch(() => ({}));
\* throw new AuthError(code, errorData.error_description || ...) }: a body
\* that parses to null makes the property read throw before the AuthError
\* is built
TokenFailure(code, resp) ==
  IF IsJson(resp.json) /\ IsNull(resp.json)
    THEN Outcome("TypeError", "none", NoResult)
    ELSE Outcome(code, ErrorMessage(resp), NoResult)

\* exchangeCodeForTokens(code, verifier), from the fetch outcome on
exchangeCodeForTokens(resp) ==
  IF resp.kind = "reject" THEN Outcome("TypeError", "none", NoResult)
  ELSE IF ~resp.ok THEN TokenFailure("AUTH_FAILED", resp)
  ELSE IF ~IsJson(resp.json) THEN Outcome("SyntaxError", "none", NoResult)
  ELSE IF IsNull(resp.json) THEN Outcome("TypeError", "none", NoResult)
  ELSE Outcome("none", "none",
         [ kind |-> "tokens",
           accessToken |-> Get(resp.json, "access_token"),
           refreshToken |-> Get(resp.json, "refresh_token"),
           tokenType |-> IF Truthy(Get(resp.json, "token_type"))
                           THEN Get(resp.json, "token_type") ELSE "Bearer" ])

\* getUserInfo(accessToken), from the fetch outcome on
getUserInfo(resp) ==
  IF resp.kind = "reject" THEN Outcome("TypeError", "none", NoResult)
  ELSE IF ~resp.ok THEN Outcome("USER_FETCH_ERROR", "statusText", NoResult)
  ELSE IF ~IsJson(resp.json) THEN Outcome("SyntaxError", "none", NoResult)
  ELSE Outcome("none", "none",
         IF "email" \in DOMAIN resp.json
           THEN [kind |-> "user", sub |-> Get(resp.json, "id"), email |-> resp.json.email]
           ELSE [kind |-> "user", sub |-> Get(resp.json, "id")])

\* String.prototype.split(sep), on a sequence of tokens
RECURSIVE Split(_, _)
Split(s, sep) ==
  IF \A k \in 1..Len(s) : s[k] # sep
    THEN << s >>
    ELSE LET p == CHOOSE k \in 1..Len(s) :
                    s[k] = sep /\ \A j \in 1..(k - 1) : s[j] # sep
         IN << SubSeq(s, 1, p - 1) >> \o Split(SubSeq(s, p + 1, Len(s)), sep)

\* email.split('@')[1] is defined and non-empty
HasDomain(email) == Len(Split(email, "@")) >= 2 /\ Split(email, "@")[2] # <<>>
\* email.split('@')[1]
EmailDomain(email) == Split(email, "@")[2]

\* validateEmailDomain(accessToken), from the getUserInfo outcome on
validateEmailDomain(fetched, allowed) ==
  IF fetched.err # "none" THEN fetched
  ELSE IF "email" \notin DOMAIN fetched.result \/ fetched.result.email = <<>>
    THEN Outcome("AUTH_FAILED", "Email not available", NoResult)
  ELSE IF ~HasDomain(fetched.result.email)
    THEN Outcome("AUTH_FAILED", "Invalid email format", NoResult)
  ELSE IF EmailDomain(fetched.result.email) \notin DomainList(allowed)
    THEN Outcome("AUTH_FAILED", "not allowed", NoResult)
  ELSE Outcome("none", "none", NoResult)

\* ---------------------------------------------------------------- handleCallback
\* parameters a callback URL may carry
CodeParams == {Null, "", "auth-code"}
ErrorParams == {Null, "", "access_denied"}
StateParams == {Null, "", "wrong-state"} \cup { UUIDs[k] : k \in 1..issued }

\* a slot is free; slots are taken in order (they are interchangeable)
Free(i) == calls[i].op = "none" /\ \A j \in 1..(i - 1) : calls[j].op # "none"

\* sessionStorage.getItem(key)
getItem(key) == sessionStorage[key]

\* (variant) the state check without `!state`
StateValidNoEmptyCheck(state, storedState) == state = storedState

\* the state check of handleCallback: passes unless `!state || state !== storedState`
StateValid(state, storedState) == Truthy(state) /\ state = storedState

\* what the history records of a callback when it starts
Started(i, state) ==
  [ calls[i] EXCEPT
      !.op = "handleCallback",
      !.state = state,
      !.afterValidated = state \in validated,
      !.afterReturned = state \in consumed,
      !.stale = \E k \in 1..(issued - 1) : UUIDs[k] = state ]

\* a call ends by raising err
Raise(c, err, msg) == [c EXCEPT !.pc = "raised", !.err = err, !.msg = msg]
\* a call ends by returning result
Return(c, result) == [c EXCEPT !.pc = "returned", !.result = result]
\* a step of the call is recorded
Log(c, events) == [c EXCEPT !.trace = @ \o events]

\* step 1: the URL has an `error` parameter
CbAuthorizationError(i, code, state, error) ==
  /\ Truthy(error)
  /\ calls' = [calls EXCEPT ![i] =
       Raise(Log(Started(i, state), <<"provider_error">>), "AUTH_FAILED", error)]
  /\ UNCHANGED << sessionStorage, validated >>

\* (variant) step 2 removes the transient entries before it raises
CbInvalidStateCleans(i, code, state, error) ==
  /\ ~Truthy(error)
  /\ ~StateValid(state, getItem("oauth_state"))
  /\ calls' = [calls EXCEPT ![i] =
       Raise(Started(i, state), "INVALID_STATE", "Invalid state parameter")]
  /\ sessionStorage' = EmptyStorage
  /\ UNCHANGED validated

\* step 2: the state is missing or differs from the stored one
CbInvalidState(i, code, state, error) ==
  /\ ~Truthy(error)
  /\ ~StateValid(state, getItem("oauth_state"))
  /\ calls' = [calls EXCEPT ![i] =
       Raise(Started(i, state), "INVALID_STATE", "Invalid state parameter")]
  /\ UNCHANGED << sessionStorage, validated >>

\* step 3: no authorization code
CbNoCode(i, code, state, error) ==
  /\ ~Truthy(error)
  /\ StateValid(state, getItem("oauth_state"))
  /\ ~Truthy(code)
  /\ calls' = [calls EXCEPT ![i] =
       Raise(Log(Started(i, state), <<"state_ok">>), "AUTH_FAILED",
             "No authorization code received")]
  /\ validated' = validated \cup {state}
  /\ UNCHANGED sessionStorage

\* step 4: no stored verifier
CbNoVerifier(i, code, state, error) ==
  /\ ~Truthy(error)
  /\ StateValid(state, getItem("oauth_state"))
  /\ Truthy(code)
  /\ ~Truthy(getItem("pkce_verifier"))
  /\ calls' = [calls EXCEPT ![i] =
       Raise(Log(Started(i, state), <<"state_ok">>), "PKCE_ERROR",
             "PKCE verifier not found")]
  /\ validated' = validated \cup {state}
  /\ UNCHANGED sessionStorage

\* (variant) the token request is sent before the state is looked at
CbExchangeUnchecked(i, code, state, error) ==
  /\ ~Truthy(error)
  /\ Truthy(code)
  /\ Truthy(getItem("pkce_verifier"))
  /\ calls' = [calls EXCEPT ![i] =
       [Log(Started(i, state), <<"token_request", "state_ok">>)
          EXCEPT !.pc = "exchanging"]]
  /\ validated' = validated \cup {state}
  /\ UNCHANGED sessionStorage

\* step 5, first half: the token request is sent and the call suspends
CbExchange(i, code, state, error) ==
  /\ ~Truthy(error)
  /\ StateValid(state, getItem("oauth_state"))
  /\ Truthy(code)
  /\ Truthy(getItem("pkce_verifier"))
  /\ calls' = [calls EXCEPT ![i] =
       [Log(Started(i, state), <<"state_ok", "token_request">>)
          EXCEPT !.pc = "exchanging"]]
  /\ validated' = validated \cup {state}
  /\ UNCHANGED sessionStorage

\* handleCallback(callbackUrl) up to its first await
handleCallback(i, code, state, error) ==
  /\ Free(i)
  /\ \/ CbAuthorizationError(i, code, state, error)
     \/ CbInvalidState(i, code, state, error)
     \/ CbNoCode(i, code, state, error)
     \/ CbNoVerifier(i, code, state, error)
     \/ CbExchange(i, code, state, error)
  /\ UNCHANGED << pkceVars, storeVars, authVars, tokenVars, config, pkceChallenge, location, issued, loginResult,
                  consumed >>

\* `allowedDomains && allowedDomains.length > 0`
DomainCheckConfigured(allowed) == allowed \notin {Undefined, "empty"}

\* (variant) only the verifier is removed
CleanupVerifierOnly(store) == [store EXCEPT !.pkce_verifier = Null]

\* the two sessionStorage.removeItem calls that end handleCallback
Cleanup(store) == [store EXCEPT !.pkce_verifier = Null, !.oauth_state = Null]

\* handleCallback finishes: clean up and return the token set
CbFinish(c, tokens) == Return(Log(c, <<"cleanup">>), tokens)

\* step 5, second half: the token endpoint answered (or the request failed)
CbTokenResponse(i, resp) ==
  /\ calls[i].op = "handleCallback"
  /\ calls[i].pc = "exchanging"
  /\ LET got == exchangeCodeForTokens(resp)
     IN IF got.err # "none"
          THEN /\ calls' = [calls EXCEPT ![i] = Raise(@, got.err, got.msg)]
               /\ UNCHANGED << sessionStorage, consumed >>
        ELSE IF DomainCheckConfigured(config)
          THEN /\ calls' = [calls EXCEPT ![i] =
                    [Log(@, <<"token_ok", "userinfo_request">>)
                       EXCEPT !.pc = "validating", !.result = got.result]]
               /\ UNCHANGED << sessionStorage, consumed >>
        ELSE /\ calls' = [calls EXCEPT ![i] =
                  CbFinish(Log(@, <<"token_ok">>), got.result)]
             /\ sessionStorage' = Cleanup(sessionStorage)
             /\ consumed' = consumed \cup {calls[i].state}
  /\ UNCHANGED << pkceVars, storeVars, authVars, tokenVars, config, pkceChallenge, location, issued, loginResult,
                  validated >>

\* step 6: the userinfo endpoint answered; step 7: clean up and return
CbUserInfoResponse(i, resp) ==
  /\ calls[i].op = "handleCallback"
  /\ calls[i].pc = "validating"
  /\ LET fetched == getUserInfo(resp)
         checked == validateEmailDomain(fetched, config)
     IN IF checked.err # "none"
          THEN /\ calls' = [calls EXCEPT ![i] =
                    [Raise(@, checked.err, checked.msg)
                       EXCEPT !.result = NoResult, !.profile = fetched.result]]
               /\ UNCHANGED << sessionStorage, consumed >>
          ELSE /\ calls' = [calls EXCEPT ![i] =
                    [CbFinish(Log(@, <<"userinfo_ok">>), calls[i].result)
                       EXCEPT !.profile = fetched.result]]
               /\ sessionStorage' = Cleanup(sessionStorage)
               /\ consumed' = consumed \cup {calls[i].state}
  /\ UNCHANGED << pkceVars, storeVars, authVars, tokenVars, config, pkceChallenge, location, issued, loginResult,
                  validated >>

\* ---------------------------------------------------------------- refreshTokens
RefreshTokenArgs == {"", "rt-old"}

\* variant: the refresh token of the response is returned as it is
refreshTokensNoFallback(resp, refreshToken) ==
  IF resp.kind = "reject" THEN Outcome("TypeError", "none", NoResult)
  ELSE IF ~resp.ok THEN TokenFailure("TOKEN_REFRESH_FAILED", resp)
  ELSE IF ~IsJson(resp.json) THEN Outcome("SyntaxError", "none", NoResult)
  ELSE IF IsNull(resp.json) THEN Outcome("TypeError", "none", NoResult)
  ELSE Outcome("none", "none",
         [ kind |-> "tokens",
           accessToken |-> Get(resp.json, "access_token"),
           refreshToken |-> Get(resp.json, "refresh_token"),
           tokenType |-> IF Truthy(Get(resp.json, "token_type"))
                           THEN Get(resp.json, "token_type") ELSE "Bearer" ])

\* refreshTokens(refreshToken), from the fetch outcome on
refreshTokens(resp, refreshToken) ==
  IF resp.kind = "reject" THEN Outcome("TypeError", "none", NoResult)
  ELSE IF ~resp.ok THEN TokenFailure("TOKEN_REFRESH_FAILED", resp)
  ELSE IF ~IsJson(resp.json) THEN Outcome("SyntaxError", "none", NoResult)
  ELSE IF IsNull(resp.json) THEN Outcome("TypeError", "none", NoResult)
  ELSE Outcome("none", "none",
         [ kind |-> "tokens",
           accessToken |-> Get(resp.json, "access_token"),
           refreshToken |-> IF Truthy(Get(resp.json, "refresh_token"))
                              THEN Get(resp.json, "refresh_token") ELSE refreshToken,
           tokenType |-> IF Truthy(Get(resp.json, "token_type"))
                           THEN Get(resp.json, "token_type") ELSE "Bearer" ])

\* a call ends with the outcome of its awaited step
Settle(c, got) ==
  IF got.err # "none" THEN Raise(c, got.err, got.msg) ELSE Return(c, got.result)

\* refresh tokens a caller holds: its own, or one a refresh has returned
ReturnedRefreshTokens ==
  { calls[j].result.refreshToken :
      j \in { k \in Calls : calls[k].op = "refreshTokens" /\ calls[k].pc = "returned" } }

\* variant: the request is sent whatever the refresh token is
CallRefreshTokensUnchecked(i, refreshToken) ==
  /\ Free(i)
  /\ calls' = [calls EXCEPT ![i] =
       [Log(@, <<"token_request">>)
          EXCEPT !.op = "refreshTokens", !.arg = refreshToken, !.pc = "refreshing"]]
  /\ UNCHANGED << pkceVars, storeVars, authVars, tokenVars, config, sessionStorage, pkceChallenge, location, issued,
                  loginResult, validated, consumed >>

\* refreshTokens(refreshToken) up to its await
CallRefreshTokens(i, refreshToken) ==
  /\ Free(i)
  /\ calls' = [calls EXCEPT ![i] =
       IF ~Truthy(refreshToken)
         THEN Raise([@ EXCEPT !.op = "refreshTokens", !.arg = refreshToken],
                    "TOKEN_REFRESH_FAILED", "No refresh token available")
         ELSE [Log(@, <<"token_request">>)
                 EXCEPT !.op = "refreshTokens", !.arg = refreshToken,
                        !.pc = "refreshing"]]
  /\ UNCHANGED << pkceVars, storeVars, authVars, tokenVars, config, sessionStorage, pkceChallenge, location, issued,
                  loginResult, validated, consumed >>

\* the token endpoint answered the refresh request (or the request failed)
RefreshResponse(i, resp) ==
  /\ calls[i].op = "refreshTokens"
  /\ calls[i].pc = "refreshing"
  /\ calls' = [calls EXCEPT ![i] = Settle(@, refreshTokens(resp, calls[i].arg))]
  /\ UNCHANGED << pkceVars, storeVars, authVars, tokenVars, config, sessionStorage, pkceChallenge, location, issued,
                  loginResult, validated, consumed >>

\* ---------------------------------------------------------------- exchangeCodeForTokens
\* exchangeCodeForTokens(code, verifier) on its own, up to its await
CallExchangeCodeForTokens(i) ==
  /\ Free(i)
  /\ calls' = [calls EXCEPT ![i] =
       [Log(@, <<"token_request">>)
          EXCEPT !.op = "exchangeCodeForTokens", !.pc = "exchanging"]]
  /\ UNCHANGED << pkceVars, storeVars, authVars, tokenVars, config, sessionStorage, pkceChallenge, location, issued,
                  loginResult, validated, consumed >>

\* the token endpoint answered the exchange request (or the request failed)
ExchangeResponse(i, resp) ==
  /\ calls[i].op = "exchangeCodeForTokens"
  /\ calls[i].pc = "exchanging"
  /\ calls' = [calls EXCEPT ![i] = Settle(@, exchangeCodeForTokens(resp))]
  /\ UNCHANGED << pkceVars, storeVars, authVars, tokenVars, config, sessionStorage, pkceChallenge, location, issued,
                  loginResult, validated, consumed >>

\* ---------------------------------------------------------------- getUserInfo
\* getUserInfo(accessToken) up to its await
CallGetUserInfo(i) ==
  /\ Free(i)
  /\ calls' = [calls EXCEPT ![i] =
       [Log(@, <<"userinfo_request">>) EXCEPT !.op = "getUserInfo", !.pc = "fetching"]]
  /\ UNCHANGED << pkceVars, storeVars, authVars, tokenVars, config, sessionStorage, pkceChallenge, location, issued,
                  loginResult, validated, consumed >>

\* the userinfo endpoint answered (or the request failed)
GetUserInfoResponse(i, resp) ==
  /\ calls[i].op = "getUserInfo"
  /\ calls[i].pc = "fetching"
  /\ calls' = [calls EXCEPT ![i] = Settle(@, getUserInfo(resp))]
  /\ UNCHANGED << pkceVars, storeVars, authVars, tokenVars, config, sessionStorage, pkceChallenge, location, issued,
                  loginResult, validated, consumed >>

\* ---------------------------------------------------------------- revokeToken
\* revokeToken(token), from the fetch outcome on: the response is not looked at
revokeToken(resp) ==
  IF resp.kind = "reject" THEN Outcome("TypeError", "none", NoResult)
  ELSE Outcome("none", "none", NoResult)

\* revokeToken(token) up to its await
CallRevokeToken(i) ==
  /\ Free(i)
  /\ calls' = [calls EXCEPT ![i] =
       [Log(@, <<"revoke_request">>) EXCEPT !.op = "revokeToken", !.pc = "revoking"]]
  /\ UNCHANGED << pkceVars, storeVars, authVars, tokenVars, config, sessionStorage, pkceChallenge, location, issued,
                  loginResult, validated, consumed >>

\* the revoke endpoint answered (or the request failed)
RevokeResponse(i, resp) ==
  /\ calls[i].op = "revokeToken"
  /\ calls[i].pc = "revoking"
  /\ calls' = [calls EXCEPT ![i] = Settle(@, revokeToken(resp))]
  /\ UNCHANGED << pkceVars, storeVars, authVars, tokenVars, config, sessionStorage, pkceChallenge, location, issued,
                  loginResult, validated, consumed >>

\* ---------------------------------------------------------------- environment
\* another script of the page removes the stored verifier
VerifierRemoved ==
  /\ sessionStorage.pkce_verifier # Null
  /\ sessionStorage' = [sessionStorage EXCEPT !.pkce_verifier = Null]
  /\ UNCHANGED << pkceVars, storeVars, authVars, tokenVars, config, pkceChallenge, location, issued, loginResult,
                  calls, validated, consumed >>

\* the OAuth flow: login(), handleCallback() and the page around them
Next ==
  \/ login
  \/ \E i \in Calls, code \in CodeParams, state \in StateParams, error \in ErrorParams :
       handleCallback(i, code, state, error)
  \/ \E i \in Calls, resp \in TokenResponses : CbTokenResponse(i, resp)
  \/ \E i \in Calls, resp \in UserInfoResponses : CbUserInfoResponse(i, resp)
  \/ VerifierRemoved

Spec == Init /\ [][Next]_vars

\* the calls that keep no state between them
NextApi ==
  \/ \E i \in Calls, refreshToken \in RefreshTokenArgs \cup ReturnedRefreshTokens :
       CallRefreshTokens(i, refreshToken)
  \/ \E i \in Calls, resp \in RefreshResponses : RefreshResponse(i, resp)
  \/ \E i \in Calls : CallExchangeCodeForTokens(i)
  \/ \E i \in Calls, resp \in TokenResponses : ExchangeResponse(i, resp)
  \/ \E i \in Calls : CallGetUserInfo(i)
  \/ \E i \in Calls, resp \in UserInfoResponses : GetUserInfoResponse(i, resp)
  \/ \E i \in Calls : CallRevokeToken(i)
  \/ \E i \in Calls, resp \in RevokeResponses : RevokeResponse(i, resp)

SpecApi == Init /\ [][NextApi]_vars

\* ---------------------------------------------------------------- PKCE utilities
MaxPairs == 2

\* generateRandomString(128): the number of random bytes of a verifier
VerifierBytes == 128
\* crypto.subtle.digest('SHA-256', data) yields 32 bytes
DigestBytes == 32
\* the code verifier lengths RFC 7636 allows
MinVerifierLen == 43
MaxVerifierLen == 128

\* crypto.getRandomValues(array): the bytes one call may fill the array with
RandomFills == {0, 62, 251, 255}
RandomBytes(length, fill) == [i \in 1..length |-> fill]

\* the base64 alphabet, indexed by the 6-bit value plus one
Base64Chars ==
  << "A", "B", "C", "D", "E", "F", "G", "H", "I", "J", "K", "L", "M",
     "N", "O", "P", "Q", "R", "S", "T", "U", "V", "W", "X", "Y", "Z",
     "a", "b", "c", "d", "e", "f", "g", "h", "i", "j", "k", "l", "m",
     "n", "o", "p", "q", "r", "s", "t", "u", "v", "w", "x", "y", "z",
     "0", "1", "2", "3", "4", "5", "6", "7", "8", "9", "+", "/" >>
Base64Char(v) == Base64Chars[v + 1]

\* Buffer.from(bytes).toString('base64') / btoa(binary): three bytes make
\* four characters, the last group is padded with "="
RECURSIVE Base64(_)
Base64(bytes) ==
  IF Len(bytes) = 0 THEN <<>>
  ELSE IF Len(bytes) = 1 THEN
    << Base64Char(bytes[1] \div 4), Base64Char((bytes[1] % 4) * 16), "=", "=" >>
  ELSE IF Len(bytes) = 2 THEN
    << Base64Char(bytes[1] \div 4),
       Base64Char((bytes[1] % 4) * 16 + bytes[2] \div 16),
       Base64Char((bytes[2] % 16) * 4), "=" >>
  ELSE
    << Base64Char(bytes[1] \div 4),
       Base64Char((bytes[1] % 4) * 16 + bytes[2] \div 16),
       Base64Char((bytes[2] % 16) * 4 + bytes[3] \div 64),
       Base64Char(bytes[3] % 64) >>
      \o Base64(SubSeq(bytes, 4, Len(bytes)))

\* .replace(/\+/g, '-').replace(/\//g, '_')
UrlSafeChar(c) == IF c = "+" THEN "-" ELSE IF c = "/" THEN "_" ELSE c
NotPadding(c) == c # "="

\* base64UrlEncode(buffer)
base64UrlEncode(bytes) ==
  LET base64 == Base64(bytes)
  IN SelectSeq([i \in 1..Len(base64) |-> UrlSafeChar(base64[i])], NotPadding)

\* the byte TextEncoder yields for a character of a base64url string,
\* numbered by the place of the character in the alphabet
CharByte(c) ==
  IF c = "-" THEN 62 ELSE IF c = "_" THEN 63
  ELSE CHOOSE v \in 0..63 : Base64Chars[v + 1] = c

\* sha256(value) stands for an injective function: the digest holds the
\* first 32 characters of the value (repeated when it is shorter), which
\* tells apart any two strings the model hashes
sha256(value) ==
  [i \in 1..DigestBytes |-> CharByte(value[((i - 1) % Len(value)) + 1])]

\* variant: the challenge is the verifier itself (the plain method)
PKCEPlain(bytes) ==
  LET verifier == base64UrlEncode(bytes)
  IN [verifier |-> verifier, challenge |-> verifier, method |-> "S256"]

\* generatePKCE(), from the random bytes on
PKCEFrom(bytes) ==
  LET verifier == base64UrlEncode(bytes)
  IN [ verifier |-> verifier,
       challenge |-> base64UrlEncode(sha256(verifier)),
       method |-> "S256" ]

\* verifyPKCE(verifier, challenge)
verifyPKCE(verifier, challenge) == base64UrlEncode(sha256(verifier)) = challenge

\* generatePKCE(): random values of this size do not repeat
GeneratePKCE(fill) ==
  /\ Len(generated) < MaxPairs
  /\ LET pkce == PKCEFrom(RandomBytes(VerifierBytes, fill))
     IN /\ \A k \in 1..Len(generated) : generated[k].verifier # pkce.verifier
        /\ generated' = Append(generated, pkce)
  /\ UNCHANGED << clientVars, storeVars, authVars, tokenVars, verification >>

\* a string no generation has produced
InvalidString == << "i", "n", "v", "a", "l", "i", "d" >>
VerifierOf(k) == IF k = 0 THEN InvalidString ELSE generated[k].verifier
ChallengeOf(k) == IF k = 0 THEN InvalidString ELSE generated[k].challenge

\* verifyPKCE called with the verifier of generation k and the challenge of
\* generation l (0: an invalid string)
VerifyPKCE(k, l) ==
  /\ verification' =
       [ kind |-> "done", verifier |-> k, challenge |-> l,
         result |-> verifyPKCE(VerifierOf(k), ChallengeOf(l)) ]
  /\ UNCHANGED << clientVars, storeVars, authVars, tokenVars, generated >>

NextPkce ==
  \/ \E fill \in RandomFills : GeneratePKCE(fill)
  \/ \E k, l \in 0..Len(generated) : VerifyPKCE(k, l)

SpecPkce == Init /\ [][NextPkce]_vars

\* ---------------------------------------------------------------- token stores: operations
\* the token sets a caller passes to setTokens: one with a property that is
\* undefined, one with an issuedAt of the caller's own
TokenSets ==
  { [accessToken |-> "at-1", refreshToken |-> "rt-1", scope |-> Undefined],
    [accessToken |-> "at-2", issuedAt |-> MaxClock + 1] }

\* variant: { issuedAt: Date.now(), ...tokens }
StampKeepsCaller(tokens, time) ==
  [k \in DOMAIN tokens \cup {"issuedAt"} |->
     IF k \in DOMAIN tokens THEN tokens[k] ELSE time]

\* { ...tokens, issuedAt: Date.now() }
Stamp(tokens, time) ==
  [k \in DOMAIN tokens \cup {"issuedAt"} |->
     IF k = "issuedAt" THEN time ELSE tokens[k]]

\* JSON.stringify(object) leaves out the properties that are undefined
\* (issuedAt is a number, accessToken may be a string of pieces; neither is
\* undefined where a token set has it)
Defined(object) ==
  { k \in DOMAIN object :
      k \in {"issuedAt", "accessToken"} \/ object[k] # Undefined }
JSONstringify(object) ==
  [kind |-> "json", value |-> [k \in Defined(object) |-> object[k]]]
\* JSON.parse(text) throws on a text that is not JSON
Parses(item) == item.kind = "json"
JSONparse(item) == item.value

\* the Storage methods, on the entry of store s
Item(web, s) == web[MediumOf(s)][storageKey(s)]
setItem(web, s, item) == [web EXCEPT ![MediumOf(s)][storageKey(s)] = item]
\* variant: the entry stays
removeItemKeeps(web, s) == web
removeItem(web, s) == [web EXCEPT ![MediumOf(s)][storageKey(s)] = NoItem]

\* the Storage methods that throw during one call (quota exceeded, access
\* to the storage denied), for setTokens, getTokens and clearTokens
SetFaults == { {}, {"setItem"} }
GetFaults == { {}, {"removeItem"}, {"getItem", "removeItem"} }
ClearFaults == { {}, {"removeItem"} }

\* what a store call hands back
Void == [kind |-> "void"]
StorageError(msg) == [kind |-> "raised", err |-> "STORAGE_ERROR", msg |-> msg]
ReturnsNull == [kind |-> "null"]
ReturnsObject(id) == [kind |-> "object", id |-> id]

\* the objects and the storage a call works on
World == [heap |-> heap, refs |-> refs, web |-> webStorage]
After(w, out) == [w |-> w, out |-> out]

\* variant: this.tokens = tokens, stamped in place
memSetTokensKeepsRef(w, s, arg, time) ==
  After([w EXCEPT !.heap[arg] = Stamp(w.heap[arg], time), !.refs[s] = arg], Void)

\* MemoryTokenStorage.setTokens: this.tokens = { ...tokens, issuedAt }
memSetTokens(w, s, arg, time) ==
  After([w EXCEPT !.heap[FreshCopy] = Stamp(w.heap[arg], time),
                  !.refs[s] = FreshCopy], Void)

\* variant: getTokens returns this.tokens itself
memGetTokensNoCopy(w, s) ==
  IF w.refs[s] = NoRef THEN After(w, ReturnsNull)
  ELSE After(w, ReturnsObject(w.refs[s]))

\* MemoryTokenStorage.getTokens: this.tokens ? { ...this.tokens } : null
memGetTokens(w, s) ==
  IF w.refs[s] = NoRef THEN After(w, ReturnsNull)
  ELSE After([w EXCEPT !.heap[FreshCopy] = w.heap[w.refs[s]]],
             ReturnsObject(FreshCopy))

\* MemoryTokenStorage.clearTokens: this.tokens = null
memClearTokens(w, s) == After([w EXCEPT !.refs[s] = NoRef], Void)

\* SessionStorageAdapter / LocalStorageAdapter.setTokens
webSetTokens(w, s, arg, time, faults) ==
  IF "setItem" \in faults
    THEN After(w, StorageError("Failed to store tokens"))
    ELSE After([w EXCEPT !.web =
                  setItem(w.web, s, JSONstringify(Stamp(w.heap[arg], time)))],
               Void)

\* SessionStorageAdapter / LocalStorageAdapter.clearTokens
webClearTokens(w, s, faults) ==
  IF "removeItem" \in faults
    THEN After(w, StorageError("Failed to clear tokens"))
    ELSE After([w EXCEPT !.web = removeItem(w.web, s)], Void)

\* the catch block of getTokens: await this.clearTokens(); return null
webGetTokensCatch(w, s, faults) ==
  LET cleared == webClearTokens(w, s, faults)
  IN IF cleared.out.kind = "raised" THEN cleared ELSE After(cleared.w, ReturnsNull)

\* SessionStorageAdapter / LocalStorageAdapter.getTokens
webGetTokens(w, s, faults) ==
  IF "getItem" \in faults THEN webGetTokensCatch(w, s, faults)
  ELSE LET serialized == Item(w.web, s)
       IN IF serialized = NoItem THEN After(w, ReturnsNull)
          ELSE IF ~Parses(serialized) THEN webGetTokensCatch(w, s, faults)
          ELSE After([w EXCEPT !.heap[FreshCopy] = JSONparse(serialized)],
                     ReturnsObject(FreshCopy))

\* the three operations of the TokenStorage interface
setTokens(w, s, arg, time, faults) ==
  IF s \in MemoryStores THEN memSetTokens(w, s, arg, time)
  ELSE webSetTokens(w, s, arg, time, faults)
getTokens(w, s, faults) ==
  IF s \in MemoryStores THEN memGetTokens(w, s) ELSE webGetTokens(w, s, faults)
clearTokens(w, s, faults) ==
  IF s \in MemoryStores THEN memClearTokens(w, s) ELSE webClearTokens(w, s, faults)

\* objects nothing refers to are gone; the others are numbered by the
\* first holder that refers to them
FirstHolder(r, id) == CHOOSE k \in 1..Len(Holders) :
  /\ r[Holders[k]] = id
  /\ \A j \in 1..(k - 1) : r[Holders[j]] # id
Collected(h, r) ==
  [ heap |-> [id \in ObjIds |->
       IF id <= Len(Holders) /\ r[Holders[id]] # NoRef
            /\ FirstHolder(r, r[Holders[id]]) = id
         THEN h[r[Holders[id]]] ELSE NoObject],
    refs |-> [x \in HolderSet |->
       IF r[x] = NoRef THEN NoRef ELSE FirstHolder(r, r[x])] ]

\* the value getTokens handed back, as the caller reads it at that time
Returned(w, out) ==
  IF out.kind = "object" THEN [kind |-> "tokens", value |-> w.heap[out.id]] ELSE out

\* stores that are views of one entry of one medium, by construction
Shares(r, s) ==
  \/ r = s
  \/ /\ r \in WebStores /\ s \in WebStores
     /\ MediumOf(r) = MediumOf(s)
     /\ ConstructorKey(r) = ConstructorKey(s)

\* a store call ended: the objects and the storage it leaves behind
Leaves(w, r, out) ==
  LET live == Collected(w.heap, r)
  IN /\ heap' = live.heap
     /\ refs' = live.refs
     /\ webStorage' = w.web
     /\ outcome' = Returned(w, out)

\* the caller builds a token object and awaits store.setTokens(tokens);
\* keep: it holds on to the object afterwards
SetTokens(s, tokens, keep, faults) ==
  /\ s \in MemoryStores => faults = {}
  /\ LET made == [World EXCEPT !.heap[FreshArg] = tokens]
         done == setTokens(made, s, FreshArg, now, faults)
         r == IF keep THEN [done.w.refs EXCEPT !["arg"] = FreshArg] ELSE done.w.refs
     IN /\ Leaves(done.w, r, done.out)
        /\ written' = IF done.out.kind = "raised" THEN written
             ELSE [x \in Stores |->
                     IF Shares(x, s)
                       THEN [ kind |-> "set", tokens |-> tokens, at |-> now,
                              replaced |-> written[x].kind = "set"
                                             /\ written[x].tokens # tokens ]
                       ELSE written[x]]
  /\ UNCHANGED << clientVars, pkceVars, authVars, tokenVars, now >>

\* the caller awaits store.getTokens(); keep: it holds on to the result
GetTokens(s, keep, faults) ==
  /\ s \in MemoryStores => faults = {}
  /\ LET done == getTokens(World, s, faults)
         r == IF keep /\ done.out.kind = "object"
                THEN [done.w.refs EXCEPT !["got"] = done.out.id] ELSE done.w.refs
     IN /\ Leaves(done.w, r, done.out)
        /\ written' = IF done.w.web = webStorage THEN written
             ELSE [x \in Stores |->
                     IF Shares(x, s) THEN [kind |-> "empty"] ELSE written[x]]
  /\ UNCHANGED << clientVars, pkceVars, authVars, tokenVars, now >>

\* the caller awaits store.clearTokens()
ClearTokens(s, faults) ==
  /\ s \in MemoryStores => faults = {}
  /\ LET done == clearTokens(World, s, faults)
     IN /\ Leaves(done.w, done.w.refs, done.out)
        /\ written' = IF done.out.kind = "raised" THEN written
             ELSE [x \in Stores |->
                     IF Shares(x, s) THEN [kind |-> "empty"] ELSE written[x]]
  /\ UNCHANGED << clientVars, pkceVars, authVars, tokenVars, now >>

\* the caller changes a property of a token object it holds
Mutate(x) ==
  /\ refs[x] # NoRef
  /\ heap[refs[x]].accessToken # "modified"
  /\ heap' = [heap EXCEPT ![refs[x]].accessToken = "modified"]
  /\ UNCHANGED << clientVars, pkceVars, authVars, tokenVars, now, refs, webStorage, outcome, written >>

\* time passes
Tick ==
  /\ now < MaxClock
  /\ now' = now + 1
  /\ UNCHANGED << clientVars, pkceVars, authVars, tokenVars, heap, refs, webStorage, outcome, written >>

\* other code of the page writes a string that is not JSON under a key
Corrupt(m, key) ==
  /\ webStorage[m][key] # BadItem
  /\ webStorage' = [webStorage EXCEPT ![m][key] = BadItem]
  /\ written' = [x \in Stores |->
       IF x \in WebStores /\ MediumOf(x) = m /\ ConstructorKey(x) = key
         THEN [kind |-> "foreign"] ELSE written[x]]
  /\ UNCHANGED << clientVars, pkceVars, authVars, tokenVars, now, heap, refs, outcome >>

\* the stores need no client: its configuration is left out
StoreInitOnly == Init /\ config = Undefined

\* one store of each variant, used one call after the other, with a clock,
\* a medium that may fail and other code that writes to the medium
StoreVariants == {"M1", "S1", "L1"}
NextStore ==
  \/ \E s \in StoreVariants, tokens \in TokenSets, faults \in SetFaults :
       SetTokens(s, tokens, FALSE, faults)
  \/ \E s \in StoreVariants, faults \in GetFaults : GetTokens(s, FALSE, faults)
  \/ \E s \in StoreVariants, faults \in ClearFaults : ClearTokens(s, faults)
  \/ Tick
  \/ \E s \in StoreVariants \cap WebStores : Corrupt(MediumOf(s), ConstructorKey(s))

SpecStore == StoreInitOnly /\ [][NextStore]_vars

\* all the store instances side by side
NextShared ==
  \/ \E s \in Stores, tokens \in TokenSets : SetTokens(s, tokens, FALSE, {})
  \/ \E s \in Stores : GetTokens(s, FALSE, {})
  \/ \E s \in Stores : ClearTokens(s, {})

SpecShared == StoreInitOnly /\ [][NextShared]_vars

\* a caller that holds on to the token objects and changes them
AliasStores == {"M1", "S1"}
NextAlias ==
  \/ \E s \in AliasStores, tokens \in TokenSets : SetTokens(s, tokens, TRUE, {})
  \/ \E s \in AliasStores, keep \in BOOLEAN : GetTokens(s, keep, {})
  \/ \E s \in AliasStores : ClearTokens(s, {})
  \/ \E x \in {"arg", "got"} : Mutate(x)

SpecAlias == StoreInitOnly /\ [][NextAlias]_vars

\* ---------------------------------------------------------------- token validator
\* JavaScript values as the validator meets them; a string is a sequence of
\* pieces (<<>> is ''), an exception on its way up is Thrown
UndefinedValue == [type |-> "undefined"]
NullValue == [type |-> "null"]
NaN == [type |-> "NaN"]
Num(n) == [type |-> "number", n |-> n]
Str(s) == [type |-> "string", s |-> s]
Bool(b) == [type |-> "boolean", b |-> b]
Arr(items) == [type |-> "array", items |-> items]
Obj(members) == [type |-> "object", props |-> members]
Thrown == [type |-> "thrown"]

\* !v
Falsy(v) ==
  \/ v.type \in {"undefined", "null", "NaN"}
  \/ v.type = "number" /\ v.n = 0
  \/ v.type = "string" /\ v.s = <<>>
  \/ v.type = "boolean" /\ ~v.b

\* v.key: a TypeError on null and undefined, undefined when the key is absent
Prop(v, key) ==
  IF v.type \in {"undefined", "null"} THEN Thrown
  ELSE IF v.type = "object" /\ key \in DOMAIN v.props THEN v.props[key]
  ELSE UndefinedValue

\* the names every object inherits from Object.prototype
ObjectPrototype ==
  { "constructor", "toString", "valueOf", "hasOwnProperty", "__proto__" }

\* key in v: own and inherited names; a TypeError when v is not an object
In(key, v) ==
  IF v.type # "object" THEN Thrown
  ELSE Bool(key \in DOMAIN v.props \cup ObjectPrototype)

\* the number an operand of - or >= is converted to (the strings of the
\* model that are not empty are no numerals)
ToNumber(v) ==
  IF v.type = "number" THEN v
  ELSE IF v.type = "null" THEN Num(0)
  ELSE IF v.type = "string" /\ v.s = <<>> THEN Num(0)
  ELSE IF v.type = "boolean" THEN Num(IF v.b THEN 1 ELSE 0)
  ELSE NaN

\* variant: decoded.exp + bufferSeconds
Plus(a, b) ==
  LET x == ToNumber(a)
      y == ToNumber(b)
  IN IF x = NaN \/ y = NaN THEN NaN ELSE Num(x.n + y.n)

\* a - b
Minus(a, b) ==
  LET x == ToNumber(a)
      y == ToNumber(b)
  IN IF x = NaN \/ y = NaN THEN NaN ELSE Num(x.n - y.n)

\* variant: now > expiresAt
GreaterThan(a, b) ==
  LET x == ToNumber(a)
      y == ToNumber(b)
  IN x # NaN /\ y # NaN /\ x.n > y.n

\* a >= b: false when an operand is NaN
GreaterEq(a, b) ==
  LET x == ToNumber(a)
      y == ToNumber(b)
  IN x # NaN /\ y # NaN /\ x.n >= y.n

\* Math.max(0, v)
Max0(v) ==
  LET x == ToNumber(v)
  IN IF x = NaN THEN NaN ELSE IF x.n > 0 THEN x ELSE Num(0)

\* Math.floor(Date.now() / 1000)
Seconds(ms) == Num(ms \div 1000)

\* variant: the exception leaves the function
CatchRethrows(body, fallback) == body

\* try { body } catch { return fallback }
Catch(body, fallback) == IF body = Thrown THEN fallback ELSE body

\* the payloads of the tokens
Claims400 ==
  Obj([ sub |-> Str(<<"12345">>), email |-> Str(<<"a", "@", "example.com">>),
        exp |-> Num(400), iss |-> Str(<<"issuer-a">>), aud |-> Str(<<"my-app">>) ])
Claims700 ==
  Obj([ sub |-> Str(<<"12345">>), exp |-> Num(700),
        aud |-> Arr(<< Str(<<"my-app">>), Str(<<"another-app">>) >>) ])
ClaimsNoExp == Obj([ sub |-> Str(<<"12345">>), iss |-> Str(<<"issuer-b">>) ])
ClaimsExpZero == Obj([ sub |-> Str(<<"12345">>), exp |-> Num(0) ])
ClaimsExpText == Obj([ sub |-> Str(<<"12345">>), exp |-> Str(<<"soon">>) ])

\* the base64 strings the model decodes and the text each stands for
PayloadTexts ==
  << [base64 |-> <<"eyJleHAiOjQwMH0">>, text |-> "{sub,email,exp:400,iss,aud}"],
     [base64 |-> <<"eyJleHAi", "+", "NzAwfQ">>, text |-> "{sub,exp:700,aud:[]}"],
     [base64 |-> <<"eyJzdWIi", "/", "fQ">>, text |-> "{sub,iss}"],
     [base64 |-> <<"eyJleHAiOjB9">>, text |-> "{sub,exp:0}"],
     [base64 |-> <<"eyJleHAiOiJzb29uIn0">>, text |-> "{sub,exp:'soon'}"],
     [base64 |-> <<"bnVsbA">>, text |-> "null"],
     [base64 |-> <<"NDI">>, text |-> "42"],
     [base64 |-> <<"bm90IGpzb24">>, text |-> "not json"] >>

\* atob(base64): an InvalidCharacterError on a string that is not base64
atob(base64) ==
  IF \E k \in 1..Len(PayloadTexts) : PayloadTexts[k].base64 = base64
    THEN Str(<< PayloadTexts[CHOOSE k \in 1..Len(PayloadTexts) :
                               PayloadTexts[k].base64 = base64].text >>)
    ELSE Thrown

\* JSON.parse(jsonPayload): a SyntaxError on a text that is not JSON
JSONparsePayload(jsonPayload) ==
  CASE jsonPayload.s = <<"{sub,email,exp:400,iss,aud}">> -> Claims400
    [] jsonPayload.s = <<"{sub,exp:700,aud:[]}">> -> Claims700
    [] jsonPayload.s = <<"{sub,iss}">> -> ClaimsNoExp
    [] jsonPayload.s = <<"{sub,exp:0}">> -> ClaimsExpZero
    [] jsonPayload.s = <<"{sub,exp:'soon'}">> -> ClaimsExpText
    [] jsonPayload.s = <<"null">> -> NullValue
    [] jsonPayload.s = <<"42">> -> Num(42)
    [] OTHER -> Thrown

\* payload.replace(/-/g, '+').replace(/_/g, '/')
Base64Std(c) == IF c = "-" THEN "+" ELSE IF c = "_" THEN "/" ELSE c

\* decodeToken(token): the payload, or an INVALID_TOKEN error
decodeToken(token) ==
  IF token.type # "string" THEN Thrown
  ELSE LET parts == Split(token.s, ".")
       IN IF Len(parts) # 3 THEN Thrown
          ELSE IF parts[2] = <<>> THEN Thrown
          ELSE LET base64 == [i \in 1..Len(parts[2]) |-> Base64Std(parts[2][i])]
                   jsonPayload == atob(base64)
               IN IF jsonPayload = Thrown THEN Thrown
                  ELSE JSONparsePayload(jsonPayload)

\* typeof token === 'string' ? decodeToken(token) : token
Decoded(token) == IF token.type = "string" THEN decodeToken(token) ELSE token

\* decoded.exp, where decoded may be an exception
Exp(decoded) == IF decoded = Thrown THEN Thrown ELSE Prop(decoded, "exp")

\* a parameter that is left out takes its default
OrDefault(arg, default) == IF arg = UndefinedValue THEN default ELSE arg

\* isTokenExpired(token, bufferSeconds = 0) at the clock value ms
isTokenExpired(token, bufferSeconds, ms) ==
  LET exp == Exp(Decoded(token))
      expiresAt == Minus(exp, OrDefault(bufferSeconds, Num(0)))
  IN Catch(IF exp = Thrown THEN Thrown
           ELSE IF Falsy(exp) THEN Bool(TRUE)
           ELSE Bool(GreaterEq(Seconds(ms), expiresAt)),
           Bool(TRUE))

\* getTokenExpiration(token)
getTokenExpiration(token) ==
  LET exp == Exp(Decoded(token))
  IN Catch(IF exp = Thrown THEN Thrown
           ELSE IF Falsy(exp) THEN NullValue ELSE exp,
           NullValue)

\* getTimeUntilExpiration(token) at the clock value ms
getTimeUntilExpiration(token, ms) ==
  LET exp == Exp(Decoded(token))
  IN Catch(IF exp = Thrown THEN Thrown
           ELSE IF Falsy(exp) THEN Num(0)
           ELSE Max0(Minus(exp, Seconds(ms))),
           Num(0))

\* validateToken: for (const claim of options.requiredClaims)
\*   if (!(claim in decoded)) return false
ClaimsPresent(decoded, requiredClaims) ==
  IF Falsy(requiredClaims) \/ requiredClaims.items = <<>> THEN Bool(TRUE)
  ELSE IF In(requiredClaims.items[1], decoded) = Thrown THEN Thrown
  ELSE Bool(\A k \in 1..Len(requiredClaims.items) :
              In(requiredClaims.items[k], decoded).b)

\* validateToken: options.issuer && decoded.iss !== options.issuer
IssuerDiffers(decoded, issuer) ==
  IF Falsy(issuer) THEN Bool(FALSE)
  ELSE IF Prop(decoded, "iss") = Thrown THEN Thrown
  ELSE Bool(Prop(decoded, "iss") # issuer)

\* validateToken: Array.isArray(decoded.aud) ? decoded.aud : [decoded.aud]
AudList(aud) == IF aud.type = "array" THEN aud.items ELSE << aud >>

\* validateToken: options.audience && !aud.includes(options.audience)
AudienceMissing(decoded, audience) ==
  IF Falsy(audience) THEN Bool(FALSE)
  ELSE IF Prop(decoded, "aud") = Thrown THEN Thrown
  ELSE LET aud == AudList(Prop(decoded, "aud"))
       IN Bool(\A k \in 1..Len(aud) : aud[k] # audience)

\* validateToken(token, options) at the clock value ms
validateToken(token, options, ms) ==
  LET decoded == decodeToken(token)
      present == ClaimsPresent(decoded, options.requiredClaims)
      issuer == IssuerDiffers(decoded, options.issuer)
      audience == AudienceMissing(decoded, options.audience)
      expired == IF Falsy(options.checkExpiration) THEN Bool(FALSE)
                 ELSE isTokenExpired(decoded, UndefinedValue, ms)
  IN Catch(IF decoded = Thrown THEN Thrown
           ELSE IF expired = Thrown THEN Thrown
           ELSE IF expired.b THEN Bool(FALSE)
           ELSE IF present = Thrown THEN Thrown
           ELSE IF ~present.b THEN Bool(FALSE)
           ELSE IF issuer = Thrown THEN Thrown
           ELSE IF issuer.b THEN Bool(FALSE)
           ELSE IF audience = Thrown THEN Thrown
           ELSE IF audience.b THEN Bool(FALSE)
           ELSE Bool(TRUE),
           Bool(FALSE))

\* the tokens handed to the validator: well-formed ones (the second and the
\* third in the URL-safe alphabet), and strings that are no JWT
Jwt(payload) == Str(<<"eyJhbGciOiJIUzI1NiJ9", ".">> \o payload \o <<".", "mock_signature">>)
Token400 == Jwt(<<"eyJleHAiOjQwMH0">>)
Token700 == Jwt(<<"eyJleHAi", "-", "NzAwfQ">>)
TokenNoExp == Jwt(<<"eyJzdWIi", "_", "fQ">>)
WellFormed ==
  { Token400, Token700, TokenNoExp, Jwt(<<"eyJleHAiOjB9">>),
    Jwt(<<"eyJleHAiOiJzb29uIn0">>) }
Malformed ==
  { Str(<<>>), Str(<<"invalid-token">>), Str(<<"invalid", ".", "token">>),
    Str(<<"a", ".", "b", ".", "c", ".", "d">>), Jwt(<<>>), Jwt(<<"!!">>),
    Jwt(<<"bm90IGpzb24">>), Jwt(<<"bnVsbA">>), Jwt(<<"NDI">>) }
TokenStrings == WellFormed \cup Malformed
\* what a caller passes where string | DecodedToken is accepted
DecodedTokens == { Claims400, ClaimsNoExp, NullValue }
TokenInputs == TokenStrings \cup DecodedTokens

\* bufferSeconds: left out, or a number of seconds
Buffers == { UndefinedValue, Num(0), Num(300), Num(600) }

\* the options of validateToken
ValidateOptions ==
  [ checkExpiration : { UndefinedValue, Bool(TRUE) },
    requiredClaims : { UndefinedValue, Arr(<<"sub", "email">>), Arr(<<"toString">>) },
    issuer : { UndefinedValue, Str(<<"issuer-a">>) },
    audience : { UndefinedValue, Str(<<"another-app">>) } ]

\* the values of Date.now() the validator is called at, in milliseconds
ClockValues == { 0, 100999, 280000, 399999, 400000 }

\* time passes
Elapse(ms) ==
  /\ ms \in ClockValues /\ ms > now
  /\ now' = ms
  /\ UNCHANGED << clientVars, pkceVars, authVars, tokenVars, heap, refs, webStorage, outcome, written >>

\* a caller calls isTokenExpired(token, bufferSeconds)
IsTokenExpired(token, bufferSeconds) ==
  /\ probe' = [ fn |-> "isTokenExpired", token |-> token,
                buffer |-> bufferSeconds, at |-> now,
                result |-> isTokenExpired(token, bufferSeconds, now) ]
  /\ UNCHANGED << clientVars, pkceVars, authVars, storeVars >>

\* a caller calls getTokenExpiration(token)
GetTokenExpiration(token) ==
  /\ probe' = [ fn |-> "getTokenExpiration", token |-> token, at |-> now,
                result |-> getTokenExpiration(token) ]
  /\ UNCHANGED << clientVars, pkceVars, authVars, storeVars >>

\* a caller calls getTimeUntilExpiration(token)
GetTimeUntilExpiration(token) ==
  /\ probe' = [ fn |-> "getTimeUntilExpiration", token |-> token, at |-> now,
                result |-> getTimeUntilExpiration(token, now) ]
  /\ UNCHANGED << clientVars, pkceVars, authVars, storeVars >>

\* a caller calls validateToken(token, options)
ValidateToken(token, options) ==
  /\ probe' = [ fn |-> "validateToken", token |-> token, options |-> options,
                at |-> now, result |-> validateToken(token, options, now) ]
  /\ UNCHANGED << clientVars, pkceVars, authVars, storeVars >>

NextValidator ==
  \/ \E ms \in ClockValues : Elapse(ms)
  \/ \E token \in TokenInputs, b \in Buffers : IsTokenExpired(token, b)
  \/ \E token \in TokenInputs : GetTokenExpiration(token)
  \/ \E token \in TokenInputs : GetTimeUntilExpiration(token)
  \/ \E token \in TokenStrings, options \in ValidateOptions :
       ValidateToken(token, options)

SpecValidator == StoreInitOnly /\ [][NextValidator]_vars

\* ---------------------------------------------------------------- TokenManager
\* the token set a store holds: null for none, and for content that does
\* not parse
StoredTokens(s) ==
  IF s \in MemoryStores
    THEN IF refs[s] = NoRef THEN NoTokens ELSE heap[refs[s]]
    ELSE IF Parses(Item(webStorage, s)) THEN JSONparse(Item(webStorage, s))
         ELSE NoTokens

\* bufferSeconds: number = 300
DefaultRefreshBuffer == 300

\* a > b: false when an operand is NaN
Greater(a, b) ==
  LET x == ToNumber(a)
      y == ToNumber(b)
  IN x # NaN /\ y # NaN /\ x.n > y.n

\* getAccessToken: tokens?.accessToken || null
managerGetAccessToken(tokens) ==
  IF tokens = NoTokens THEN NullValue
  ELSE IF "accessToken" \notin DOMAIN tokens THEN NullValue
  ELSE IF Falsy(Str(tokens.accessToken)) THEN NullValue
  ELSE Str(tokens.accessToken)

\* variant: !isTokenExpired(token), the buffer left out
managerIsTokenValidNoBuffer(tokens, bufferSeconds, ms) ==
  LET token == managerGetAccessToken(tokens)
  IN IF Falsy(token) THEN Bool(FALSE)
     ELSE Bool(~isTokenExpired(token, UndefinedValue, ms).b)

\* isTokenValid(bufferSeconds?)
managerIsTokenValid(tokens, bufferSeconds, ms) ==
  LET token == managerGetAccessToken(tokens)
  IN IF Falsy(token) THEN Bool(FALSE)
     ELSE Bool(~isTokenExpired(token, bufferSeconds, ms).b)

\* variant: tokens !== null
managerHasTokensAnySet(tokens) == Bool(tokens # NoTokens)

\* hasTokens: tokens !== null && !!tokens.accessToken
managerHasTokens(tokens) ==
  Bool(/\ tokens # NoTokens
       /\ "accessToken" \in DOMAIN tokens
       /\ ~Falsy(Str(tokens.accessToken)))

\* TokenManager.getTimeUntilExpiration
managerGetTimeUntilExpiration(tokens, ms) ==
  LET token == managerGetAccessToken(tokens)
  IN IF Falsy(token) THEN Num(0) ELSE getTimeUntilExpiration(token, ms)

\* variant: timeRemaining > 0 && timeRemaining < bufferSeconds
managerShouldRefreshBefore(tokens, bufferSeconds, ms) ==
  LET timeRemaining == managerGetTimeUntilExpiration(tokens, ms)
  IN Bool(/\ Greater(timeRemaining, Num(0))
          /\ Greater(OrDefault(bufferSeconds, Num(DefaultRefreshBuffer)),
                     timeRemaining))

\* shouldRefresh(bufferSeconds = 300)
managerShouldRefresh(tokens, bufferSeconds, ms) ==
  LET timeRemaining == managerGetTimeUntilExpiration(tokens, ms)
  IN Bool(/\ Greater(timeRemaining, Num(0))
          /\ GreaterEq(OrDefault(bufferSeconds, Num(DefaultRefreshBuffer)),
                       timeRemaining))

\* the methods of the manager that read the token set
ManagerFns ==
  { "getAccessToken", "isTokenValid", "hasTokens", "getTimeUntilExpiration",
    "shouldRefresh" }
ManagerResult(fn, tokens, bufferSeconds, ms) ==
  CASE fn = "getAccessToken" -> managerGetAccessToken(tokens)
    [] fn = "isTokenValid" -> managerIsTokenValid(tokens, bufferSeconds, ms)
    [] fn = "hasTokens" -> managerHasTokens(tokens)
    [] fn = "getTimeUntilExpiration" -> managerGetTimeUntilExpiration(tokens, ms)
    [] fn = "shouldRefresh" -> managerShouldRefresh(tokens, bufferSeconds, ms)

\* the token sets handed to the manager: a token that expires at 400, one
\* that is no JWT, an empty access token, no access token
ManagerTokenSets ==
  { [accessToken |-> Token400.s, refreshToken |-> "rt-1"],
    [accessToken |-> <<"invalid-token">>, refreshToken |-> "rt-1"],
    [accessToken |-> TokenNoExp.s, refreshToken |-> "rt-1"],
    [accessToken |-> <<"eyJleHAiOiJzb29uIn0">>, refreshToken |-> "rt-1"],
    [accessToken |-> <<>>, refreshToken |-> "rt-1"],
    [refreshToken |-> "rt-1"] }
ManagerBuffers == { UndefinedValue, Num(300), Num(600) }
ManagerClock == { 100999, 400000 }
\* a manager on its default storage, and one on a session store that is
\* handed one token set
ManagerStores == {"M1", "S1"}
SessionTokenSets == { [accessToken |-> Token400.s, refreshToken |-> "rt-1"] }

\* a caller awaits a method of the manager on store s: the manager awaits
\* storage.getTokens() and answers from what it gets
ManagerCall(fn, s, bufferSeconds) ==
  /\ fn \notin {"isTokenValid", "shouldRefresh"} => bufferSeconds = UndefinedValue
  /\ LET done == getTokens(World, s, {})
         tokens == IF done.out.kind = "object" THEN done.w.heap[done.out.id]
                   ELSE NoTokens
     IN /\ Leaves(done.w, done.w.refs, done.out)
        /\ written' = IF done.w.web = webStorage THEN written
             ELSE [x \in Stores |->
                     IF Shares(x, s) THEN [kind |-> "empty"] ELSE written[x]]
        /\ probe' = [ fn |-> fn, store |-> s, buffer |-> bufferSeconds,
                      at |-> now, held |-> StoredTokens(s),
                      result |-> ManagerResult(fn, tokens, bufferSeconds, now) ]
  /\ UNCHANGED << clientVars, pkceVars, authVars, now >>

NextManager ==
  \/ \E tokens \in ManagerTokenSets : SetTokens("M1", tokens, FALSE, {})
  \/ \E tokens \in SessionTokenSets : SetTokens("S1", tokens, FALSE, {})
  \/ ClearTokens("M1", {})
  \/ \E fn \in ManagerFns, s \in ManagerStores, b \in ManagerBuffers :
       ManagerCall(fn, s, b)
  \/ Corrupt("session", STORAGE_KEY)
  \/ \E ms \in ManagerClock : Elapse(ms)

SpecManager == StoreInitOnly /\ [][NextManager]_vars

\* ---------------------------------------------------------------- AuthProvider
\* refreshBufferSeconds = 300
refreshBufferSeconds == 300

\* the most async functions of the provider in flight at a time, and the
\* most calls of logout and refreshTokens a consumer makes
MaxTasks == 2
MaxUserCalls == 2

\* an AuthTokens object: its access token, whether it has a refresh token,
\* expiresIn, and fresh: no render has seen this object yet
AuthTokens(accessToken, refresh, expiresIn) ==
  [ accessToken |-> accessToken, refresh |-> refresh, expiresIn |-> expiresIn,
    fresh |-> TRUE ]
\* the same object once a render has seen it
Seen(tokens) == IF tokens = NoTokens THEN NoTokens ELSE [tokens EXCEPT !.fresh = FALSE]
\* what the storage keeps of a token set, and the copy getTokens returns
Kept(tokens) == [tokens EXCEPT !.fresh = FALSE]
Copy(tokens) == [tokens EXCEPT !.fresh = TRUE]

\* an access token that is no JWT, as the token endpoint issues them
OpaqueToken == << "mock-access-token" >>
\* the token sets handleCallback returns: with and without a refresh
\* token, with an access token that is a JWT expiring at 400 or an opaque
\* string that is good for an hour
CallbackTokens ==
  { AuthTokens(Token400.s, TRUE, 400), AuthTokens(Token400.s, FALSE, 400),
    AuthTokens(OpaqueToken, TRUE, 3600) }
\* the token set client.refreshTokens returns: it always has a refresh
\* token, the access token expires at 700
RefreshedTokens == AuthTokens(Token700.s, TRUE, 700)

\* authReducer(state, action); user and error: whether one is set
\* (initialState: isLoading, nothing else)
authReducer(state, type, tokens) ==
  CASE type = "LOGIN_START" -> [state EXCEPT !.isLoading = TRUE, !.error = FALSE]
    [] type = "LOGIN_SUCCESS" ->
         [ isAuthenticated |-> TRUE, isLoading |-> FALSE, user |-> TRUE,
           tokens |-> tokens, error |-> FALSE ]
    [] type = "LOGIN_ERROR" ->
         [ isAuthenticated |-> FALSE, isLoading |-> FALSE, user |-> FALSE,
           tokens |-> NoTokens, error |-> TRUE ]
    [] type = "LOGOUT" ->
         [ isAuthenticated |-> FALSE, isLoading |-> FALSE, user |-> FALSE,
           tokens |-> NoTokens, error |-> FALSE ]
    [] type = "REFRESH_START" -> [state EXCEPT !.isLoading = TRUE]
    [] type = "REFRESH_SUCCESS" ->
         [state EXCEPT !.isLoading = FALSE, !.tokens = tokens, !.error = FALSE]
    [] type = "REFRESH_ERROR" -> [state EXCEPT !.isLoading = FALSE, !.error = TRUE]
    [] type = "SET_LOADING" -> [state EXCEPT !.isLoading = FALSE]

\* dispatch(action): a component that is unmounted takes no update
dispatch(state, type, tokens) ==
  IF mounted = "yes" THEN authReducer(state, type, tokens) ELSE state

\* Math.max(0, timeUntilExpiry - refreshBufferSeconds) * 1000
refreshTime(tokens) ==
  Max0(Minus(getTimeUntilExpiration(Str(tokens.accessToken), now),
             Num(refreshBufferSeconds))).n * 1000

\* if (refreshTimerRef.current) clearTimeout(refreshTimerRef.current)
clearTimeout(pending) == [NoTimer EXCEPT !.others = pending.others]

\* refreshTimerRef.current = setTimeout(() => void refreshTokens(), refreshTime):
\* the timer will call the refreshTokens of the render the code is from,
\* which reads the state.tokens of that render (closure); a timer the
\* handle named and that is still pending stays pending
setTimeout(closure, tokens, pending) ==
  [ set |-> TRUE, closure |-> closure, tokens |-> [tokens EXCEPT !.fresh = FALSE],
    delay |-> refreshTime(tokens),
    others |-> pending.others + (IF pending.set THEN 1 ELSE 0),
    replaced |-> FALSE ]

\* a variant that sets the new timer without clearing the one pending
rescheduleKeeping(closure, tokens, pending) ==
  setTimeout(closure, tokens, pending)

\* the timer refreshTokens and setupTokenRefresh set: clear, then set
reschedule(closure, tokens, pending) ==
  [ setTimeout(closure, tokens, clearTimeout(pending))
      EXCEPT !.replaced = pending.set ]

\* setupTokenRefresh(tokens), of the render that saw closure
setupTokenRefresh(closure, tokens, pending) ==
  IF ~props.autoRefresh \/ ~tokens.refresh THEN pending
  ELSE reschedule(closure, tokens, pending)

\* an async function of the provider in flight, suspended at an await that
\* takes time: a request of the client, or a callback of the props.  The
\* storage settles at once, so what follows its await is part of the step
Task(kind, pc, closure, tokens) ==
  [ kind |-> kind, pc |-> pc, closure |-> closure, tokens |-> tokens,
    stale |-> FALSE ]
Without(seq, i) == SubSeq(seq, 1, i - 1) \o SubSeq(seq, i + 1, Len(seq))
At(seq, i, task) == [seq EXCEPT ![i] = task]

\* the effects of a render.  The first one makes the storage, the manager
\* and the client and starts initAuth: with tokens in the storage it awaits
\* getUserInfo, else it dispatches SET_LOADING (as it does when getTokens
\* raises).  The second one, on the callback route, dispatches LOGIN_START
\* and awaits client.handleCallback, which validates the state of a URL
\* only once
EffectTasks(closure, route, first, stored) ==
  (IF stored # NoTokens
     THEN << Task("initAuth", "getUserInfo", closure, Copy(stored)) >>
     ELSE <<>>)
    \o (IF route
          THEN << Task("handleCallback",
                       IF first THEN "handleCallback" ELSE "handleCallbackAgain",
                       closure, NoTokens) >>
          ELSE <<>>)
EffectDispatches(state, route, stored) ==
  LET started == IF route THEN authReducer(state, "LOGIN_START", NoTokens)
                 ELSE state
  IN IF stored = NoTokens THEN authReducer(started, "SET_LOADING", NoTokens)
     ELSE started

\* the props a provider is given: autoRefresh, config.tokenStorage, and the
\* callbacks onLoginSuccess, onLoginError and onLogout
PropsChoices ==
  { [autoRefresh |-> TRUE, tokenStorage |-> FALSE, callbacks |-> FALSE],
    [autoRefresh |-> TRUE, tokenStorage |-> TRUE, callbacks |-> TRUE],
    [autoRefresh |-> FALSE, tokenStorage |-> FALSE, callbacks |-> TRUE] }
\* what a storage that is passed in holds when the page loads: nothing, or
\* a token set whose access token has no expiry to read
StoredSessions == { NoTokens, Kept(AuthTokens(TokenNoExp.s, TRUE, 3600)) }

\* a step of the provider that leaves the props, the latest render and the
\* route alone
Become(a, t, m, k, h, e) ==
  /\ auth' = a /\ timer' = t /\ managed' = m /\ tasks' = k
  /\ history' = h /\ ended' = e
  /\ UNCHANGED << props, mounted, rendered, onCallbackRoute >>
  /\ UNCHANGED << clientVars, pkceVars, storeVars, tokenVars >>

\* the provider is rendered for the first time and its effects run
Mount(p, route, stored) ==
  /\ mounted = "no"
  /\ stored # NoTokens => p.tokenStorage
  /\ props' = p /\ mounted' = "yes" /\ onCallbackRoute' = route
  /\ managed' = stored
  /\ auth' = EffectDispatches(initialState, route, stored)
  /\ tasks' = EffectTasks(NoTokens, route, TRUE, stored)
  /\ UNCHANGED << rendered, timer, history, ended >>
  /\ UNCHANGED << clientVars, pkceVars, storeVars, tokenVars >>

\* the storage the first effect makes: config.tokenStorage, or a new
\* MemoryTokenStorage
EffectStorage == IF props.tokenStorage THEN managed ELSE NoTokens

\* state.tokens is another object than at the latest render: refreshTokens
\* and setupTokenRefresh are made anew, so both effects are cleaned up
\* (clearTimeout) and run again
Render ==
  /\ mounted = "yes"
  /\ auth.tokens # rendered
  /\ Len(tasks) + Len(EffectTasks(NoTokens, onCallbackRoute, FALSE, EffectStorage))
       <= MaxTasks
  /\ rendered' = Seen(auth.tokens)
  /\ auth' = EffectDispatches([auth EXCEPT !.tokens = Seen(auth.tokens)],
                              onCallbackRoute, EffectStorage)
  /\ timer' = NoTimer
  /\ managed' = EffectStorage
  /\ tasks' = tasks \o EffectTasks(Seen(auth.tokens), onCallbackRoute, FALSE,
                                   EffectStorage)
  /\ ended' = "none"
  /\ UNCHANGED << props, mounted, onCallbackRoute, history >>
  /\ UNCHANGED << clientVars, pkceVars, storeVars, tokenVars >>

\* the provider is unmounted: the cleanup of the first effect
Unmount ==
  /\ mounted = "yes"
  /\ mounted' = "gone"
  /\ timer' = NoTimer
  /\ ended' = "none"
  /\ UNCHANGED << props, auth, rendered, onCallbackRoute, managed, tasks, history >>
  /\ UNCHANGED << clientVars, pkceVars, storeVars, tokenVars >>

\* a request, the storage or a callback has failed
Failed(h) == [h EXCEPT !.failed = TRUE]
\* quiet: a logout has completed with the store empty, state.tokens null
\* and no timer pending, and since then no login has gone on and no new
\* refresh request was sent
Quiet(h, state, stored, pending) ==
  [h EXCEPT !.quiet = /\ mounted = "yes"
                      /\ stored = NoTokens
                      /\ state.tokens = NoTokens
                      /\ ~pending.set]
Loud(h) == [h EXCEPT !.quiet = FALSE]
\* latest: the token set the provider has obtained most recently, from the
\* storage, from handleCallback or from a refresh
Latest(h, tokens) == [h EXCEPT !.latest = Kept(tokens)]

\* the task at place i
IsAt(i, kind, pc) ==
  i \in 1..Len(tasks) /\ tasks[i].kind = kind /\ tasks[i].pc = pc
\* a storage that is passed in may raise; the MemoryTokenStorage does not
MayRaise(raises) == raises => props.tokenStorage
\* the provider has a token set with a refresh token to refresh by itself
Obtained(tokens) == mounted = "yes" /\ props.autoRefresh /\ tokens.refresh

\* initAuth: clientRef.current.getUserInfo has settled
InitUserInfo(i, ok) ==
  /\ IsAt(i, "initAuth", "getUserInfo")
  /\ IF ok
       THEN Become(dispatch(auth, "LOGIN_SUCCESS", tasks[i].tokens),
                   IF props.autoRefresh
                     THEN setupTokenRefresh(tasks[i].closure, tasks[i].tokens, timer)
                     ELSE timer,
                   managed, Without(tasks, i),
                   Latest(Loud([history EXCEPT !.waiting = Obtained(tasks[i].tokens)]),
                          tasks[i].tokens),
                   "none")
       ELSE Become(dispatch(auth, "SET_LOADING", NoTokens), timer, managed,
                   Without(tasks, i), Failed(history), "none")

\* the catch block of the callback effect: LOGIN_ERROR, await onLoginError
CatchLogin(i, h, e) ==
  Become(dispatch(auth, "LOGIN_ERROR", NoTokens), timer, managed,
         IF props.callbacks
           THEN At(tasks, i, [tasks[i] EXCEPT !.pc = "onLoginError"])
           ELSE Without(tasks, i),
         h, e)

\* the callback effect: client.handleCallback has settled (the URL passes
\* the state validation once), then setTokens, then await getUserInfo
CbHandled(i, result, raises) ==
  /\ \/ IsAt(i, "handleCallback", "handleCallback")
     \/ IsAt(i, "handleCallback", "handleCallbackAgain") /\ result = NoTokens
  /\ MayRaise(raises)
  /\ raises => result # NoTokens
  /\ IF result = NoTokens \/ raises
       THEN IF tasks[i].pc = "handleCallback"
              THEN CatchLogin(i, Failed(history), "login error")
              ELSE CatchLogin(i, history, "login error, same URL")
     ELSE Become(auth, timer, Kept(result),
                 At(tasks, i, [tasks[i] EXCEPT !.pc = "getUserInfo",
                                               !.tokens = result]),
                 Latest(Loud(history), result), "none")

\* the callback effect: getUserInfo has settled; without onLoginSuccess
\* the effect goes on to window.history.replaceState
CbUserInfo(i, ok) ==
  /\ IsAt(i, "handleCallback", "getUserInfo")
  /\ IF ~ok THEN CatchLogin(i, Failed(history), "login error")
     ELSE /\ auth' = dispatch(auth, "LOGIN_SUCCESS", tasks[i].tokens)
          /\ timer' = IF props.autoRefresh
                        THEN setupTokenRefresh(tasks[i].closure, tasks[i].tokens, timer)
                        ELSE timer
          /\ history' = Loud([history EXCEPT !.waiting = Obtained(tasks[i].tokens)])
          /\ tasks' = IF props.callbacks
                        THEN At(tasks, i, [tasks[i] EXCEPT !.pc = "onLoginSuccess"])
                        ELSE Without(tasks, i)
          /\ onCallbackRoute' = (props.callbacks /\ onCallbackRoute)
          /\ ended' = "none"
          /\ UNCHANGED << props, mounted, rendered, managed >>
          /\ UNCHANGED << clientVars, pkceVars, storeVars, tokenVars >>

\* the callback effect: onLoginSuccess has settled
CbLoginSuccessReturned(i, ok) ==
  /\ IsAt(i, "handleCallback", "onLoginSuccess")
  /\ IF ~ok THEN CatchLogin(i, Failed(history), "none")
     ELSE /\ onCallbackRoute' = FALSE
          /\ tasks' = Without(tasks, i)
          /\ ended' = "none"
          /\ UNCHANGED << props, mounted, rendered, managed, auth, timer, history >>
          /\ UNCHANGED << clientVars, pkceVars, storeVars, tokenVars >>

\* the callback effect: onLoginError has settled
CbLoginErrorReturned(i) ==
  /\ IsAt(i, "handleCallback", "onLoginError")
  /\ Become(auth, timer, managed, Without(tasks, i), history, "none")

\* !state.tokens?.refreshToken: refreshTokens returns at once
Returns(closure) == closure = NoTokens \/ ~closure.refresh

\* refreshTokens(), of the render that saw closure, up to its first await
refreshTokensStart(closure, pending, h) ==
  IF Returns(closure)
    THEN Become(auth, pending, managed, tasks, h, "none")
    ELSE /\ Len(tasks) < MaxTasks
         /\ Become(dispatch(auth, "REFRESH_START", NoTokens), pending, managed,
                   Append(tasks, [ Task("refreshTokens", "request", closure, NoTokens)
                                     EXCEPT !.stale = (Kept(closure) # h.latest) ]),
                   Loud([h EXCEPT !.waiting = FALSE]), "none")

\* a consumer calls the refreshTokens of the context value
RefreshTokens ==
  /\ mounted = "yes"
  /\ history.calls < MaxUserCalls
  /\ refreshTokensStart(rendered, timer, [history EXCEPT !.calls = @ + 1])

\* the timer fires: void refreshTokens()
TimerFires ==
  /\ timer.set
  /\ refreshTokensStart(timer.closure, NoTimer, history)

\* refreshTokens: clientRef.current.refreshTokens has settled.  Resolved:
\* setTokens, REFRESH_SUCCESS and the next timer.  Rejected, or setTokens
\* raises: REFRESH_ERROR, clearTimeout, await revokeToken
RefreshResponded(i, ok, raises) ==
  /\ IsAt(i, "refreshTokens", "request")
  /\ MayRaise(raises)
  /\ raises => ok
  /\ IF ok /\ ~raises
       THEN Become(dispatch(auth, "REFRESH_SUCCESS", RefreshedTokens),
                   IF props.autoRefresh /\ RefreshedTokens.refresh
                     THEN reschedule(tasks[i].closure, RefreshedTokens, timer)
                     ELSE timer,
                   Kept(RefreshedTokens), Without(tasks, i),
                   Latest(history, RefreshedTokens), "none")
       ELSE Become(dispatch(auth, "REFRESH_ERROR", NoTokens), NoTimer, managed,
                   At(tasks, i, [tasks[i] EXCEPT !.pc = "revokeToken"]),
                   Failed(history), "none")

\* refreshTokens, catch block: revokeToken has settled (it never raises),
\* then clearTokens (when it raises, refreshTokens rejects), LOGOUT and
\* await onLogout
RefreshRevoked(i, raises) ==
  /\ IsAt(i, "refreshTokens", "revokeToken")
  /\ MayRaise(raises)
  /\ IF raises
       THEN Become(auth, timer, managed, Without(tasks, i), Failed(history),
                   "refresh failed, clearTokens raised")
       ELSE Become(dispatch(auth, "LOGOUT", NoTokens), timer, NoTokens,
                   IF props.callbacks
                     THEN At(tasks, i, [tasks[i] EXCEPT !.pc = "onLogout"])
                     ELSE Without(tasks, i),
                   history,
                   IF props.callbacks THEN "none" ELSE "refresh failed")

\* refreshTokens, catch block: onLogout has settled
RefreshLogoutReturned(i) ==
  /\ IsAt(i, "refreshTokens", "onLogout")
  /\ Become(auth, timer, managed, Without(tasks, i), history, "refresh failed")

\* logout, from clearTokens on: LOGOUT either way, then await onLogout;
\* k: the tasks in flight without this logout, at: its place if it stays
logoutClear(k, at, closure, pending, h, raises) ==
  IF raises
    THEN Become(dispatch(auth, "LOGOUT", NoTokens), pending, managed, k,
                Failed(h), "logout, clearTokens raised")
  ELSE IF props.callbacks
    THEN Become(dispatch(auth, "LOGOUT", NoTokens), pending, NoTokens,
                SubSeq(k, 1, at - 1)
                  \o << Task("logout", "onLogout", closure, NoTokens) >>
                  \o SubSeq(k, at, Len(k)),
                h, "none")
  ELSE Become(dispatch(auth, "LOGOUT", NoTokens), pending, NoTokens, k,
              Quiet(h, dispatch(auth, "LOGOUT", NoTokens), NoTokens, pending),
              "logout")

\* a consumer calls the logout of the context value: clearTimeout, then
\* await revokeToken if state.tokens has an access token
Logout(raises) ==
  /\ mounted = "yes"
  /\ history.calls < MaxUserCalls
  /\ Len(tasks) < MaxTasks
  /\ MayRaise(raises)
  /\ raises => rendered = NoTokens
  /\ LET h == [history EXCEPT !.calls = @ + 1, !.logout = TRUE]
     IN IF rendered # NoTokens
          THEN Become(auth, NoTimer, managed,
                      Append(tasks, Task("logout", "revokeToken", rendered, NoTokens)),
                      h, "none")
          ELSE logoutClear(tasks, Len(tasks) + 1, rendered, NoTimer, h, raises)

\* logout: revokeToken has settled (it never raises)
LogoutRevoked(i, raises) ==
  /\ IsAt(i, "logout", "revokeToken")
  /\ MayRaise(raises)
  /\ logoutClear(Without(tasks, i), i, tasks[i].closure, timer, history, raises)

\* logout: onLogout has settled; LOGOUT once more when it raises
LogoutReturned(i, ok) ==
  /\ IsAt(i, "logout", "onLogout")
  /\ LET state == IF ok THEN auth ELSE dispatch(auth, "LOGOUT", NoTokens)
     IN Become(state, timer, managed, Without(tasks, i),
               Quiet(IF ok THEN history ELSE Failed(history), state, managed, timer),
               "logout")

\* a step of the async function at place i
TaskStep(i) ==
  \/ \E ok \in BOOLEAN : InitUserInfo(i, ok)
  \/ \E result \in CallbackTokens \cup {NoTokens}, raises \in BOOLEAN :
       CbHandled(i, result, raises)
  \/ \E ok \in BOOLEAN : CbUserInfo(i, ok)
  \/ \E ok \in BOOLEAN : CbLoginSuccessReturned(i, ok)
  \/ CbLoginErrorReturned(i)
  \/ \E ok, raises \in BOOLEAN : RefreshResponded(i, ok, raises)
  \/ \E raises \in BOOLEAN : RefreshRevoked(i, raises)
  \/ RefreshLogoutReturned(i)
  \/ \E raises \in BOOLEAN : LogoutRevoked(i, raises)
  \/ \E ok \in BOOLEAN : LogoutReturned(i, ok)

NextAuth ==
  \/ \E p \in PropsChoices, route \in BOOLEAN, stored \in StoredSessions :
       Mount(p, route, stored)
  \/ Render
  \/ Unmount
  \/ RefreshTokens
  \/ TimerFires
  \/ \E raises \in BOOLEAN : Logout(raises)
  \/ \E i \in 1..MaxTasks : TaskStep(i)

SpecAuth == StoreInitOnly /\ [][NextAuth]_vars

\* the timer fires when its time has come, what is awaited settles, and
\* React renders after a dispatch
SpecAuthFair ==
  /\ SpecAuth
  /\ SF_vars(TimerFires)
  /\ WF_vars(Render)
  /\ \A i \in 1..MaxTasks : WF_vars(TaskStep(i))

\* ---------------------------------------------------------------- properties
HasEvent(c, e) == \E k \in 1..Len(c.trace) : c.trace[k] = e
EventAt(c, e) == CHOOSE k \in 1..Len(c.trace) : c.trace[k] = e
IsCallback(c) == c.op = "handleCallback"
\* the call has just been made / has just ended in this step
Begins(i) == calls[i].op = "none" /\ calls'[i].op # "none"
Ends(i) == calls[i].pc \notin {"returned", "raised"}
             /\ calls'[i].pc \in {"returned", "raised"}
RaisedWith(c, err) == c.pc = "raised" /\ c.err = err

\* C1: a callback without an error parameter sends the token request only
\* if its state is non-empty and equal to the stored oauth_state; otherwise
\* it fails with INVALID_STATE and sends nothing.
C1_StateGate ==
  [][\A i \in Calls :
       (Begins(i) /\ IsCallback(calls'[i]) /\ ~HasEvent(calls'[i], "provider_error"))
         => IF calls'[i].state \notin {Null, ""}
                 /\ calls'[i].state = sessionStorage.oauth_state
              THEN TRUE
              ELSE /\ RaisedWith(calls'[i], "INVALID_STATE")
                   /\ ~HasEvent(calls'[i], "token_request")]_vars

\* C1 witness: one callback passed the gate and sent its token request,
\* another without a state was refused
C1_Witness ==
  /\ \E i \in Calls : IsCallback(calls[i]) /\ calls[i].pc = "exchanging"
  /\ \E i \in Calls : IsCallback(calls[i]) /\ calls[i].state = Null
                        /\ RaisedWith(calls[i], "INVALID_STATE")

\* C2: once a callback has passed state validation with a nonce, every later
\* callback carrying that nonce fails with INVALID_STATE.
C2_NonceSingleUse ==
  \A i \in Calls :
    (IsCallback(calls[i]) /\ calls[i].afterValidated
       /\ ~HasEvent(calls[i], "provider_error"))
      => RaisedWith(calls[i], "INVALID_STATE")

\* C3: in one callback the token request follows state validation, and the
\* userinfo request follows the token endpoint's successful answer.
C3_StepOrder ==
  \A i \in Calls :
    IsCallback(calls[i]) =>
      /\ HasEvent(calls[i], "token_request") =>
           /\ HasEvent(calls[i], "state_ok")
           /\ EventAt(calls[i], "state_ok") < EventAt(calls[i], "token_request")
      /\ HasEvent(calls[i], "userinfo_request") =>
           /\ HasEvent(calls[i], "token_request")
           /\ HasEvent(calls[i], "token_ok")
           /\ EventAt(calls[i], "token_request") < EventAt(calls[i], "token_ok")
           /\ EventAt(calls[i], "token_ok") < EventAt(calls[i], "userinfo_request")

\* C3 witness: a callback that went through all three steps
C3_Witness ==
  \E i \in Calls : IsCallback(calls[i]) /\ HasEvent(calls[i], "userinfo_ok")

\* a callback whose nonce an earlier callback returned with is refused
C4_ReplayRejected ==
  \A i \in Calls :
    (IsCallback(calls[i]) /\ calls[i].afterReturned
       /\ ~HasEvent(calls[i], "provider_error"))
      => /\ RaisedWith(calls[i], "INVALID_STATE")
         /\ ~HasEvent(calls[i], "token_request")
\* a callback that returns leaves no transient entry
C4_CleanOnReturn ==
  \A i \in Calls :
    (IsCallback(calls[i]) /\ Ends(i) /\ calls'[i].pc = "returned")
      => sessionStorage' = EmptyStorage
\* C4: when a callback returns a token set both transient entries are gone,
\* and a replay of a callback that returned fails with INVALID_STATE
\* without a second token request.
C4_NoReplay == [][C4_CleanOnReturn]_vars /\ []C4_ReplayRejected

\* C4 witness: a callback returned and its URL was replayed
C4_Witness ==
  \E i, j \in Calls :
    /\ IsCallback(calls[i]) /\ calls[i].pc = "returned"
    /\ IsCallback(calls[j]) /\ calls[j].afterReturned
    /\ calls[j].state = calls[i].state

\* C5: when a callback whose code exchange succeeded ends, by returning or
\* by raising, neither transient entry remains in session storage.
C5_NothingOutlives ==
  [][\A i \in Calls :
       (IsCallback(calls[i]) /\ Ends(i) /\ HasEvent(calls'[i], "token_ok"))
         => sessionStorage' = EmptyStorage]_vars

\* C6: a callback that fails before the code exchange leaves session storage
\* as it was and sends no request.
C6_EarlyFailureFrame ==
  [][\A i \in Calls :
       (Begins(i) /\ IsCallback(calls'[i]) /\ calls'[i].pc = "raised")
         => /\ sessionStorage' = sessionStorage
            /\ ~HasEvent(calls'[i], "token_request")
            /\ ~HasEvent(calls'[i], "userinfo_request")]_vars

\* C6 witness: a callback was refused for its state while both entries stay
C6_Witness ==
  /\ \E i \in Calls : IsCallback(calls[i]) /\ RaisedWith(calls[i], "INVALID_STATE")
  /\ sessionStorage.oauth_state # Null
  /\ sessionStorage.pkce_verifier # Null

\* a login() that redirects leaves the entries of the URL it navigated to
C7_LoginWrites ==
  (issued' = issued + 1)
    => /\ Truthy(sessionStorage'.pkce_verifier)
       /\ S256(sessionStorage'.pkce_verifier) = location'.code_challenge
       /\ Truthy(sessionStorage'.oauth_state)
       /\ sessionStorage'.oauth_state = location'.state
\* a callback carrying the nonce of an earlier login is refused
C7_StaleRejected ==
  \A i \in Calls :
    (IsCallback(calls[i]) /\ calls[i].stale /\ ~HasEvent(calls[i], "provider_error"))
      => RaisedWith(calls[i], "INVALID_STATE")
\* C7: login() overwrites both transient entries with the verifier and the
\* state of the URL it navigates to, and a callback carrying an earlier
\* login's nonce is refused with INVALID_STATE.
C7_LoginOverwrites == [][C7_LoginWrites]_vars /\ []C7_StaleRejected

\* C7 witness: after a second login a callback carried the first nonce
C7_Witness ==
  /\ issued >= 2
  /\ \E i \in Calls : IsCallback(calls[i]) /\ calls[i].stale
                        /\ calls[i].state = UUIDs[1]

\* the text after the `@` of an address
TextAfterAt(email) ==
  LET p == CHOOSE k \in 1..Len(email) :
             email[k] = "@" /\ \A j \in 1..(k - 1) : email[j] # "@"
  IN SubSeq(email, p + 1, Len(email))
HasAt(email) == \E k \in 1..Len(email) : email[k] = "@"
\* the profile's e-mail has a domain that the allow-list holds
DomainAllowed(profile) ==
  /\ "email" \in DOMAIN profile
  /\ HasAt(profile.email)
  /\ TextAfterAt(profile.email) \in DomainList(config)

\* C8: with a non-empty allowedDomains a callback returns a token set only
\* if the fetched profile's e-mail domain (the text after `@`) is in the
\* list, and fails with AUTH_FAILED otherwise; without allowedDomains no
\* profile is fetched.
C8_DomainGate ==
  \A i \in Calls :
    IsCallback(calls[i]) =>
      /\ (DomainCheckConfigured(config) /\ calls[i].pc = "returned")
           => (calls[i].profile.kind = "user" /\ DomainAllowed(calls[i].profile))
      /\ (calls[i].profile.kind = "user" /\ ~DomainAllowed(calls[i].profile))
           => RaisedWith(calls[i], "AUTH_FAILED")
      /\ ~DomainCheckConfigured(config) => ~HasEvent(calls[i], "userinfo_request")

\* the domain gate of C8 for the addresses that have at most one `@`
DomainGateSingleAt ==
  \A i \in Calls :
    (IsCallback(calls[i]) /\ calls[i].profile.kind = "user"
       /\ "email" \in DOMAIN calls[i].profile
       /\ Len(Split(calls[i].profile.email, "@")) <= 2)
      => /\ calls[i].pc = "returned" => DomainAllowed(calls[i].profile)
         /\ ~DomainAllowed(calls[i].profile) => RaisedWith(calls[i], "AUTH_FAILED")

\* C9: revokeToken never raises, whatever the response or the outcome of
\* the HTTP call.
C9_RevokeNeverRaises ==
  \A i \in Calls : calls[i].op = "revokeToken" => calls[i].pc # "raised"

\* C10: every failure of login, handleCallback, refreshTokens or getUserInfo
\* reaches the caller as an AuthError with a code.
C10_TypedErrors ==
  /\ loginResult \in {"none", "ok"} \cup AuthErrorCode
  /\ \A i \in Calls :
       (calls[i].op \in {"handleCallback", "refreshTokens", "getUserInfo"}
          /\ calls[i].pc = "raised")
         => calls[i].err \in AuthErrorCode

\* C11: refreshTokens called with an empty refresh token fails at once with
\* TOKEN_REFRESH_FAILED and sends no request to the token endpoint.
C11_EmptyRefreshFails ==
  \A i \in Calls :
    (calls[i].op = "refreshTokens" /\ ~Truthy(calls[i].arg))
      => /\ RaisedWith(calls[i], "TOKEN_REFRESH_FAILED")
         /\ ~HasEvent(calls[i], "token_request")

C11_Witness ==
  \E i \in Calls :
    /\ calls[i].op = "refreshTokens" /\ calls[i].arg = ""
    /\ calls[i].pc = "raised"
    /\ calls[i].msg = "No refresh token available"

\* a refresh that returns carries the refresh token of the response when the
\* response has a non-empty one, and else the one passed in
C12_ResponseOrPassed ==
  \A i \in Calls, resp \in RefreshResponses :
    (RefreshResponse(i, resp) /\ calls'[i].pc = "returned")
      => calls'[i].result.refreshToken =
           IF Truthy(Get(resp.json, "refresh_token"))
             THEN Get(resp.json, "refresh_token") ELSE calls[i].arg

\* every returned refresh, also one fed with the result of an earlier one,
\* carries a non-empty refresh token
C12_NeverEmpty ==
  \A i \in Calls :
    (calls[i].op = "refreshTokens" /\ calls[i].pc = "returned")
      => Truthy(calls[i].result.refreshToken)

\* C12: a successful refresh returns the refresh token of the response when
\* the response has one and else the refresh token passed in, so that
\* through any chain of successful refreshes the returned token set carries
\* a non-empty refresh token.
C12_RefreshTokenKept == [][C12_ResponseOrPassed]_vars /\ []C12_NeverEmpty

C12_Witness ==
  \E i, j \in Calls :
    /\ calls[i].op = "refreshTokens" /\ calls[i].pc = "returned"
    /\ calls[i].arg = "rt-old" /\ calls[i].result.refreshToken = "rt-new"
    /\ calls[j].op = "refreshTokens" /\ calls[j].pc = "returned"
    /\ calls[j].arg = "rt-new" /\ calls[j].result.refreshToken = "rt-new"

\* the message the error of a non-2xx response carries
DescriptionOrStatusText(resp) ==
  IF IsJson(resp.json) /\ Truthy(Get(resp.json, "error_description"))
    THEN Get(resp.json, "error_description") ELSE "statusText"

FailsWith(c, code, resp) ==
  RaisedWith(c, code) /\ c.msg = DescriptionOrStatusText(resp)

\* C13: a non-2xx answer of the token endpoint makes the code exchange fail
\* with AUTH_FAILED and the refresh with TOKEN_REFRESH_FAILED; the message
\* is the error_description of the body when the body parses and has one
\* and else carries the status text; a body that does not parse neither
\* raises by itself nor changes the error kind.
C13_TokenEndpointFailure ==
  [][\A i \in Calls, resp \in { r \in RefreshResponses : r.kind = "http" /\ ~r.ok } :
       /\ ExchangeResponse(i, resp) => FailsWith(calls'[i], "AUTH_FAILED", resp)
       /\ RefreshResponse(i, resp)
            => FailsWith(calls'[i], "TOKEN_REFRESH_FAILED", resp)]_vars

\* the same for every error body but the JSON text null
TokenEndpointFailureNotNull ==
  [][\A i \in Calls,
        resp \in { r \in RefreshResponses :
                     r.kind = "http" /\ ~r.ok /\ ~IsNull(r.json) } :
       /\ ExchangeResponse(i, resp) => FailsWith(calls'[i], "AUTH_FAILED", resp)
       /\ RefreshResponse(i, resp)
            => FailsWith(calls'[i], "TOKEN_REFRESH_FAILED", resp)]_vars

\* C14: with SHA-256 standing for an injective function, every pair that
\* generatePKCE returns has challenge = base64url(sha256(verifier)) and
\* method S256 and passes verifyPKCE; verifyPKCE is false whenever the
\* verifier or the challenge comes from another generation.
C14_PairVerifies ==
  /\ \A k \in 1..Len(generated) :
       /\ generated[k].challenge = base64UrlEncode(sha256(generated[k].verifier))
       /\ generated[k].method = "S256"
       /\ verifyPKCE(generated[k].verifier, generated[k].challenge)
       /\ \A l \in 1..Len(generated) :
            l # k => ~verifyPKCE(generated[k].verifier, generated[l].challenge)
  /\ verification.kind = "done"
       => verification.result =
            (verification.verifier = verification.challenge
               /\ verification.verifier # 0)

C14_Witness ==
  /\ Len(generated) = 2
  /\ verification.kind = "done"
  /\ verification.verifier = 1 /\ verification.challenge = 2
  /\ ~verification.result

\* the digests of the strings the model hashes differ pairwise
HashInjective ==
  \A k, l \in 0..Len(generated) :
    sha256(VerifierOf(k)) = sha256(VerifierOf(l)) => VerifierOf(k) = VerifierOf(l)

\* C15: the verifier generatePKCE produces (128 random bytes, base64url
\* without padding) has a length within the 43 to 128 characters RFC 7636
\* requires of a code verifier.
C15_VerifierLength ==
  \A k \in 1..Len(generated) :
    /\ Len(generated[k].verifier) >= MinVerifierLen
    /\ Len(generated[k].verifier) <= MaxVerifierLen

\* the token set a store holds, if it holds one
HasTokens(s) == "accessToken" \in DOMAIN StoredTokens(s)

\* two token sets agree on every property but issuedAt (a property that is
\* undefined counts as one that is not there)
SameButIssuedAt(a, b) ==
  \A k \in (DOMAIN a \cup DOMAIN b) \ {"issuedAt"} : Get(a, k) = Get(b, k)

\* what getTokens has to hand back after the write or clear w
AsWritten(w, got) ==
  /\ w.kind = "empty" => got = ReturnsNull
  /\ w.kind = "set" => /\ got.kind = "tokens"
                       /\ SameButIssuedAt(got.value, w.tokens)
                       /\ "issuedAt" \in DOMAIN got.value

\* C16: on each store variant, after any sequence of setTokens and
\* clearTokens, getTokens returns null if the store was never written or
\* was cleared last, and else exactly the fields of the token set that was
\* set last, plus issuedAt, with no field of an earlier one.
C16_LastWriteWins ==
  [][\A s \in StoreVariants :
       GetTokens(s, FALSE, {}) => AsWritten(written[s], outcome')]_vars

C16_Witness ==
  /\ outcome.kind = "tokens"
  /\ outcome.value.accessToken = "at-2"
  /\ "refreshToken" \notin DOMAIN outcome.value
  /\ \E s \in StoreVariants \cap WebStores :
       /\ written[s].kind = "set" /\ written[s].replaced
       /\ StoredTokens(s) = outcome.value

\* a write that succeeds leaves the time of the write as issuedAt
C17_Stamped ==
  \A s \in StoreVariants, tokens \in TokenSets, faults \in SetFaults :
    (SetTokens(s, tokens, FALSE, faults) /\ outcome'.kind = "void")
      => StoredTokens(s)'.issuedAt = now

\* the issuedAt a store holds does not go back
C17_Monotone ==
  \A s \in StoreVariants :
    (HasTokens(s) /\ HasTokens(s)')
      => StoredTokens(s)'.issuedAt >= StoredTokens(s).issuedAt

\* C17: setTokens of every store variant stamps issuedAt with the time of
\* the write, over any issuedAt of the caller, so that with a clock that
\* does not go back the stored issuedAt never decreases from write to write.
C17_IssuedAtStamped == [][C17_Stamped /\ C17_Monotone]_vars

C17_Witness ==
  \E s \in StoreVariants :
    /\ written[s].kind = "set" /\ written[s].replaced
    /\ "issuedAt" \in DOMAIN written[s].tokens
    /\ now = MaxClock
    /\ StoredTokens(s).issuedAt = now

\* getTokens hands back the token set as it was written, issuedAt included
ExactlyAsWritten(w, got) ==
  /\ AsWritten(w, got)
  /\ w.kind = "set" => got.value.issuedAt = w.at

\* C18: getTokens returns an independent copy: changing an object that
\* getTokens returned, or the object that was passed to setTokens, changes
\* nothing of what a later getTokens returns.
C18_IndependentCopy ==
  [][/\ \A x \in {"arg", "got"} :
          Mutate(x) => \A s \in AliasStores : StoredTokens(s)' = StoredTokens(s)
     /\ \A s \in AliasStores, keep \in BOOLEAN :
          GetTokens(s, keep, {}) => ExactlyAsWritten(written[s], outcome')]_vars

C18_Witness ==
  /\ refs["arg"] # NoRef /\ heap[refs["arg"]].accessToken = "modified"
  /\ refs["got"] # NoRef /\ heap[refs["got"]].accessToken = "modified"
  /\ outcome.kind = "tokens" /\ outcome.value.accessToken # "modified"
  /\ HasTokens("M1") /\ StoredTokens("M1") = outcome.value

\* store s has just been called
Called(s) ==
  \/ \E tokens \in TokenSets : SetTokens(s, tokens, FALSE, {})
  \/ GetTokens(s, FALSE, {})
  \/ ClearTokens(s, {})

\* C19: a call on one memory store changes nothing of another memory
\* store; session (or persistent) stores constructed with the same key see
\* each other's setTokens and clearTokens; stores with different keys or
\* on different media never affect one another.
C19_Isolation ==
  [][\A s \in Stores :
       /\ Called(s) => \A r \in Stores :
            /\ Shares(r, s) => StoredTokens(r)' = StoredTokens(s)'
            /\ ~Shares(r, s) => StoredTokens(r)' = StoredTokens(r)
       /\ GetTokens(s, FALSE, {}) => ExactlyAsWritten(written[s], outcome')]_vars

C19_Witness ==
  /\ HasTokens("M1") /\ ~HasTokens("M2")
  /\ HasTokens("S1") /\ HasTokens("S2") /\ ~HasTokens("S3")
  /\ HasTokens("L1")
  /\ StoredTokens("L1").accessToken # StoredTokens("S2").accessToken
  /\ outcome.kind = "tokens"

\* C20: getTokens of the session and of the persistent store, on stored
\* content that does not parse, returns null and removes the entry, so that
\* the next getTokens returns null too and a setTokens / getTokens round
\* trip after it works.
C20_SelfHeals ==
  [][\A s \in StoreVariants \cap WebStores, faults \in GetFaults :
       (GetTokens(s, FALSE, faults) /\ Item(webStorage, s) = BadItem)
         => /\ outcome' = ReturnsNull
            /\ Item(webStorage, s)' = NoItem]_vars

\* the same while removeItem does not throw, and the calls after it
SelfHealsWhenRemovable ==
  [][\A s \in StoreVariants \cap WebStores :
       /\ (GetTokens(s, FALSE, {}) /\ Item(webStorage, s) = BadItem)
            => /\ outcome' = ReturnsNull
               /\ Item(webStorage, s)' = NoItem
               /\ written'[s].kind = "empty"
       /\ GetTokens(s, FALSE, {}) => AsWritten(written[s], outcome')]_vars

\* the four functions of the validator that catch what they raise
ValidatorFns ==
  { "isTokenExpired", "getTokenExpiration", "getTimeUntilExpiration",
    "validateToken" }
\* the token cannot be decoded, or its expiry cannot be read
Unusable(token) == Exp(Decoded(token)) = Thrown

\* C21: isTokenExpired, getTokenExpiration, getTimeUntilExpiration and
\* validateToken never raise, whatever they are given (a well-formed token,
\* a malformed string, a token without an expiry claim, a decoded object);
\* when the token cannot be decoded or evaluated they return true, null, 0
\* and false respectively
C21_NeverRaises ==
  /\ probe.fn \in ValidatorFns => probe.result # Thrown
  /\ probe.fn = "isTokenExpired" /\ Unusable(probe.token)
       => probe.result = Bool(TRUE)
  /\ probe.fn = "getTokenExpiration" /\ Unusable(probe.token)
       => probe.result = NullValue
  /\ probe.fn = "getTimeUntilExpiration" /\ Unusable(probe.token)
       => probe.result = Num(0)
  /\ probe.fn = "validateToken" /\ decodeToken(probe.token) = Thrown
       => probe.result = Bool(FALSE)
C21_Witness ==
  /\ probe.fn = "getTimeUntilExpiration"
  /\ probe.token = Str(<<"invalid-token">>)
  /\ probe.result = Num(0)

\* the payload carries the claim
HasClaim(decoded, claim) ==
  decoded.type = "object" /\ claim \in DOMAIN decoded.props
\* bufferSeconds as a number of seconds
BufferSeconds(b) == OrDefault(b, Num(0)).n

\* C22: for every token that decodes, every clock value now and every
\* buffer b, isTokenExpired(token, b) is true exactly when the token has no
\* expiry claim or now >= exp - b
C22_ExpiredExactly ==
  (probe.fn = "isTokenExpired" /\ Decoded(probe.token) # Thrown) =>
    LET decoded == Decoded(probe.token)
    IN probe.result =
         Bool(\/ ~HasClaim(decoded, "exp")
              \/ /\ decoded.props.exp.type = "number"
                 /\ probe.at \div 1000
                      >= decoded.props.exp.n - BufferSeconds(probe.buffer))
\* now = exp - b: the token expires in 300 seconds, the buffer is 300
C22_Witness ==
  /\ probe.fn = "isTokenExpired"
  /\ probe.token = Token400
  /\ probe.at = 100999
  /\ probe.buffer = Num(300)
  /\ probe.result = Bool(TRUE)

\* C23: isTokenExpired is monotonic in bufferSeconds: a token that is
\* expired at a buffer is expired at every larger buffer at the same clock
\* value
C23_Monotonic ==
  [][( /\ probe.fn = "isTokenExpired" /\ probe'.fn = "isTokenExpired"
       /\ probe'.token = probe.token /\ probe'.at = probe.at
       /\ BufferSeconds(probe'.buffer) >= BufferSeconds(probe.buffer)
       /\ probe.result = Bool(TRUE) )
      => probe'.result = Bool(TRUE)]_vars
\* the buffer decides: not expired without it, expired with it
C23_Witness ==
  /\ probe.fn = "isTokenExpired"
  /\ probe.buffer = Num(600)
  /\ probe.result = Bool(TRUE)
  /\ isTokenExpired(probe.token, Num(300), probe.at) = Bool(FALSE)

\* what the options of validateToken ask for, read off the payload
Decodes(token) == decodeToken(token) # Thrown
NotExpired(token, ms) ==
  isTokenExpired(decodeToken(token), UndefinedValue, ms) = Bool(FALSE)
RequiredNames(options) ==
  IF options.requiredClaims = UndefinedValue THEN {}
  ELSE { options.requiredClaims.items[k] :
           k \in 1..Len(options.requiredClaims.items) }
AudSet(decoded) ==
  IF ~HasClaim(decoded, "aud") THEN {}
  ELSE IF decoded.props.aud.type = "array"
    THEN { decoded.props.aud.items[k] : k \in 1..Len(decoded.props.aud.items) }
  ELSE { decoded.props.aud }
Accepts(token, options, ms) ==
  /\ Decodes(token)
  /\ options.checkExpiration = Bool(TRUE) => NotExpired(token, ms)
  /\ \A claim \in RequiredNames(options) : HasClaim(decodeToken(token), claim)
  /\ options.issuer # UndefinedValue =>
       /\ HasClaim(decodeToken(token), "iss")
       /\ decodeToken(token).props.iss = options.issuer
  /\ options.audience # UndefinedValue =>
       options.audience \in AudSet(decodeToken(token))

\* C24: validateToken(token, options) returns true exactly when the token
\* decodes, it is not expired if checkExpiration is requested, every name in
\* requiredClaims is present in the payload, iss equals the issuer if one is
\* requested, and the audience is among aud if one is requested (a string
\* aud is a one-element set); otherwise it returns false
C24_ValidatesExactly ==
  probe.fn = "validateToken" =>
    probe.result = Bool(Accepts(probe.token, probe.options, probe.at))

\* the same for the required names that no object inherits
ValidatesOwnClaims ==
  (probe.fn = "validateToken"
     /\ RequiredNames(probe.options) \cap ObjectPrototype = {}) =>
    probe.result = Bool(Accepts(probe.token, probe.options, probe.at))
\* a required name is inherited from Object.prototype
AcceptsInheritedName ==
  /\ probe.fn = "validateToken"
  /\ RequiredNames(probe.options) = {"toString"}
  /\ ~HasClaim(decodeToken(probe.token), "toString")
  /\ probe.result = Bool(TRUE)

\* the seconds the access token of a token set has left at the clock value
\* ms: 0 without an access token, and for one without a readable expiry
SecondsLeft(held, ms) ==
  IF held = NoTokens \/ "accessToken" \notin DOMAIN held THEN 0
  ELSE LET decoded == decodeToken(Str(held.accessToken))
       IN IF ~HasClaim(decoded, "exp") \/ decoded.props.exp.type # "number"
            THEN 0
          ELSE IF decoded.props.exp.n > ms \div 1000
            THEN decoded.props.exp.n - ms \div 1000
          ELSE 0

\* C25: TokenManager.shouldRefresh(bufferSeconds) is true exactly when
\* 0 < timeRemaining <= bufferSeconds (300 when left out): false for an
\* expired or missing token, true when timeRemaining equals the buffer
C25_ShouldRefresh ==
  probe.fn = "shouldRefresh" =>
    LET timeRemaining == SecondsLeft(probe.held, probe.at)
        bufferSeconds == IF probe.buffer = UndefinedValue
                           THEN DefaultRefreshBuffer ELSE probe.buffer.n
    IN probe.result = Bool(0 < timeRemaining /\ timeRemaining <= bufferSeconds)
\* the time remaining equals the default buffer
C25_Witness ==
  /\ probe.fn = "shouldRefresh"
  /\ probe.buffer = UndefinedValue
  /\ SecondsLeft(probe.held, probe.at) = DefaultRefreshBuffer
  /\ probe.result = Bool(TRUE)

\* the store holds no token set, or one without or with an empty access token
NothingUsable(held) ==
  \/ held = NoTokens
  \/ "accessToken" \notin DOMAIN held
  \/ held.accessToken = <<>>

\* C26: whenever the store of the manager holds no token set, or one with
\* an empty access token, getAccessToken is null, hasTokens is false,
\* isTokenValid is false for every buffer, getTimeUntilExpiration is 0 and
\* shouldRefresh is false
C26_NothingUsable ==
  (probe.fn \in ManagerFns /\ NothingUsable(probe.held)) =>
    /\ probe.fn = "getAccessToken" => probe.result = NullValue
    /\ probe.fn = "hasTokens" => probe.result = Bool(FALSE)
    /\ probe.fn = "isTokenValid" => probe.result = Bool(FALSE)
    /\ probe.fn = "getTimeUntilExpiration" => probe.result = Num(0)
    /\ probe.fn = "shouldRefresh" => probe.result = Bool(FALSE)
\* a token set with an empty access token is held
C26_Witness ==
  /\ probe.fn = "hasTokens"
  /\ probe.held # NoTokens
  /\ NothingUsable(probe.held)
  /\ probe.result = Bool(FALSE)

\* the refresh requests in flight
RefreshesInFlight ==
  { i \in 1..Len(tasks) : tasks[i].kind = "refreshTokens" /\ tasks[i].pc = "request" }
\* no room is left for the async functions the next step would start
NoRoom == Len(tasks) = MaxTasks

\* C27: with autoRefresh, once the provider has obtained a token set with a
\* refresh token (callback login or restored session), it eventually sends
\* a refresh request, unless logout or unmount comes first (or a request,
\* the storage or a callback fails)
C27_EventuallyRefreshes ==
  history.waiting
    ~> (\/ ~history.waiting \/ history.logout \/ mounted = "gone"
        \/ history.failed \/ NoRoom)
\* the timer is set max(0, timeUntilExpiry - refreshBufferSeconds) seconds
\* ahead: 100 seconds for the token of the callback, at once for the
\* restored one, 400 seconds for a refreshed one
TimerDelay ==
  timer.set => timer.delay \in {0, 100000, 400000}
\* the provider has logged in through the callback, has rendered and rests:
\* no timer is pending and nothing is in flight
NeverRefreshes ==
  /\ history.waiting /\ ~history.logout /\ ~history.failed /\ mounted = "yes"
  /\ auth.isAuthenticated
  /\ rendered = auth.tokens
  /\ ~timer.set
  /\ tasks = <<>>

\* C28: logout never raises and always ends with isAuthenticated = false,
\* user = null and tokens = null, whatever the outcome of the revocation, of
\* clearing the store and of onLogout
C28_LogoutEndsLoggedOut ==
  (ended \in {"logout", "logout, clearTokens raised"} /\ mounted = "yes") =>
    /\ ~auth.isAuthenticated
    /\ ~auth.user
    /\ auth.tokens = NoTokens
\* a logout has returned and the state has tokens
LoggedOutWithTokens ==
  ended = "logout" /\ mounted = "yes" /\ auth.tokens # NoTokens

\* C29: when logout has completed, the token store holds no token set and
\* no refresh timer is pending, whatever the outcome of the revocation
C29_LogoutLeavesNothing ==
  ended = "logout" => (managed = NoTokens /\ ~timer.set)
\* a logout has returned and a refresh timer is pending
LoggedOutWithTimer == ended = "logout" /\ timer.set

\* C30: the provider never has two refresh requests in flight at the same
\* time, whether they come from the timer, from the refreshTokens of the
\* context value, or from both
C30_OneRefreshInFlight == Cardinality(RefreshesInFlight) <= 1
\* two refresh requests are in flight
TwoRefreshes == Cardinality(RefreshesInFlight) = 2

\* the auth state is the one LOGOUT gives but for error
LoggedOut == ~auth.isAuthenticated /\ ~auth.user /\ auth.tokens = NoTokens
\* C32: when a refresh attempt fails the provider ends logged out: the
\* timer is cancelled, the token store is cleared and the auth state is
\* isAuthenticated = false, user = null, tokens = null
C32_RefreshFailureLogsOut ==
  (ended = "refresh failed" /\ mounted = "yes") =>
    (~timer.set /\ managed = NoTokens /\ LoggedOut)
\* a failed refresh has ended and a timer is pending
RefreshFailedWithTimer ==
  ended = "refresh failed" /\ mounted = "yes" /\ timer.set

\* C33: a refresh request in flight when logout completes cannot undo the
\* logout: from then until the next login the token store stays empty,
\* state.tokens stays null and no refresh timer is scheduled
C33_RefreshCannotUndoLogout ==
  (history.quiet /\ mounted = "yes") =>
    (managed = NoTokens /\ auth.tokens = NoTokens /\ ~timer.set)
\* a logout has completed while a refresh request is in flight
LogoutDuringRefresh == history.quiet /\ RefreshesInFlight # {}
\* after a logout, and before any login, the store holds a token set again
LogoutUndone == history.quiet /\ mounted = "yes" /\ managed # NoTokens

\* the store holds a token set that handleCallback returned
StoredFromCallback == managed \in { Kept(tokens) : tokens \in CallbackTokens }
\* C34: if the callback handling ends with LOGIN_ERROR because
\* handleCallback, the store write or the profile fetch failed, the token
\* store holds no token set obtained in that attempt
C34_LoginErrorStoresNothing ==
  ended = "login error" => ~StoredFromCallback
\* the callback handling has ended with LOGIN_ERROR and the store holds the
\* token set of the attempt
LoginErrorWithTokens ==
  /\ ended = "login error" /\ StoredFromCallback
  /\ mounted = "yes" /\ auth.error /\ auth.tokens = NoTokens

\* C35: in every reachable state of the provider isAuthenticated is true
\* exactly when user and tokens are both non-null: there are no tokens
\* without authentication and no authentication without tokens
C35_AuthenticatedIffUserAndTokens ==
  /\ auth.isAuthenticated <=> (auth.user /\ auth.tokens # NoTokens)
  /\ auth.tokens # NoTokens => auth.isAuthenticated
  /\ auth.isAuthenticated => auth.tokens # NoTokens
\* the equivalence alone, and authentication with user and tokens
AuthenticatedHasUserAndTokens ==
  auth.isAuthenticated <=> (auth.user /\ auth.tokens # NoTokens)
\* tokens without authentication
TokensWithoutAuthentication ==
  ~auth.isAuthenticated /\ ~auth.user /\ auth.tokens # NoTokens

\* the provider is mounted over a token store that holds the session it was
\* given
Restored ==
  /\ mounted = "yes" /\ ~onCallbackRoute
  /\ managed # NoTokens /\ managed \in StoredSessions
\* nothing is in flight, no render is due and isLoading is false
Quiescent == tasks = <<>> /\ auth.tokens = rendered /\ ~auth.isLoading
\* C36: after mount with a token store that holds a token set the
\* initialization terminates: after a bounded number of profile fetches the
\* provider is quiescent with isLoading = false (unless a logout, an
\* unmount or a failure comes first)
C36_InitializationTerminates ==
  Restored
    ~> (\/ Quiescent \/ history.logout \/ mounted = "gone"
        \/ history.failed \/ NoRoom)
\* initAuth is in flight once more for a token set that a render has seen
\* already
RestoresAgain ==
  /\ Restored /\ ~history.failed /\ ~history.logout /\ history.calls = 0
  /\ auth.isAuthenticated /\ rendered # NoTokens
  /\ \E i \in 1..Len(tasks) :
       tasks[i].kind = "initAuth" /\ tasks[i].closure = rendered

\* client.handleCallback is in flight for a URL it has handled already
HandlesAgain ==
  { i \in 1..Len(tasks) : tasks[i].pc = "handleCallbackAgain" }
\* C37: for one arrival on the callback route client.handleCallback is
\* invoked at most once, so no LOGIN_SUCCESS is followed by a LOGIN_ERROR
\* from handling the same URL again
C37_CallbackHandledOnce ==
  HandlesAgain = {} /\ ended # "login error, same URL"
\* LOGIN_ERROR from the second handling of the URL, after the login succeeded
LoginSuccessThenError ==
  /\ ended = "login error, same URL" /\ mounted = "yes"
  /\ auth.error /\ ~auth.isAuthenticated /\ auth.tokens = NoTokens
  /\ ~history.failed

\* the refresh requests in flight that were sent with the refresh token of
\* another token set than the one obtained last
StaleRefreshes ==
  { i \in 1..Len(tasks) :
      tasks[i].kind = "refreshTokens" /\ tasks[i].pc = "request" /\ tasks[i].stale }
\* C38: every refresh request carries the refresh token of the token set
\* obtained most recently: after a refresh that rotated the refresh token
\* the next refresh uses the rotated one
C38_RefreshUsesLatestToken == StaleRefreshes = {}
\* a refresh request is in flight with the refresh token of the callback,
\* sent after a refresh had replaced that token set
RefreshWithOldToken ==
  \E i \in StaleRefreshes :
    /\ tasks[i].closure.accessToken = Token400.s
    /\ history.latest = Kept(RefreshedTokens)

\* the token sets as the token endpoint has just issued them
JustObtained == { Kept(tokens) : tokens \in CallbackTokens \cup {RefreshedTokens} }
\* C39: for a token set just obtained whose lifetime exceeds the buffer the
\* next refresh is scheduled with a strictly positive delay, whatever the
\* form of the access token
C39_PositiveDelay ==
  ( /\ timer.set /\ timer.tokens \in JustObtained
    /\ timer.tokens.expiresIn > refreshBufferSeconds )
    => timer.delay > 0
\* the same for access tokens that are JWTs with an exp claim
PositiveDelayForJwt ==
  ( /\ timer.set /\ timer.tokens \in JustObtained
    /\ timer.tokens.accessToken # OpaqueToken
    /\ timer.tokens.expiresIn > refreshBufferSeconds )
    => timer.delay = (timer.tokens.expiresIn - refreshBufferSeconds) * 1000
\* a refresh is scheduled at once for an opaque access token good for an hour
ImmediateRefresh ==
  /\ timer.set /\ timer.delay = 0
  /\ timer.tokens \in JustObtained /\ timer.tokens.accessToken = OpaqueToken
  /\ timer.tokens.expiresIn > refreshBufferSeconds

\* the refresh timers that are pending
PendingTimers == timer.others + (IF timer.set THEN 1 ELSE 0)
\* C31: at every moment at most one refresh timer is pending: scheduling a
\* timer cancels the one scheduled before, and unmount cancels the one
\* pending
C31_OneTimerPending ==
  [][ /\ PendingTimers' <= 1
      /\ (mounted = "yes" /\ mounted' = "gone") => PendingTimers' = 0 ]_vars
\* a timer has been scheduled while another one was pending, and one is
\* pending
C31_Witness == timer.set /\ timer.replaced /\ PendingTimers = 1

\* the buffers of at least 0 seconds the predicates are compared at
AgreeBuffers == { Num(0), Num(300), Num(600) }
\* the token set the manager of store s reads at this instant
HeldNow(s) ==
  LET done == getTokens(World, s, {})
  IN IF done.out.kind = "object" THEN done.w.heap[done.out.id] ELSE NoTokens

\* C40: at any one clock instant, for every stored token set and every
\* buffer B >= 0, shouldRefresh(B) = true implies isTokenValid(0) = true and
\* isTokenValid(B) = false, and getTimeUntilExpiration() is 0 exactly when
\* isTokenValid(0) is false
C40_PredicatesAgree ==
  \A s \in ManagerStores :
    LET held == HeldNow(s)
    IN /\ \A B \in AgreeBuffers :
            managerShouldRefresh(held, B, now) = Bool(TRUE) =>
              /\ managerIsTokenValid(held, Num(0), now) = Bool(TRUE)
              /\ managerIsTokenValid(held, B, now) = Bool(FALSE)
       /\ (managerGetTimeUntilExpiration(held, now) = Num(0))
            <=> (managerIsTokenValid(held, Num(0), now) = Bool(FALSE))
\* shouldRefresh has just answered true for a stored token that
\* isTokenValid(0) accepts, and another store holds a token set that has no
\* time left
C40_Witness ==
  /\ probe.fn = "shouldRefresh"
  /\ probe.result = Bool(TRUE)
  /\ probe.at = now
  /\ probe.held = HeldNow(probe.store)
  /\ managerIsTokenValid(probe.held, Num(0), now) = Bool(TRUE)
  /\ \E s \in ManagerStores :
        /\ managerHasTokens(HeldNow(s)) = Bool(TRUE)
        /\ managerGetTimeUntilExpiration(HeldNow(s), now) = Num(0)

====
